---- MODULE Spec2Model ----
(***************************************************************************)
(* Model of the POST /chat handler of backend/app/main.py: request         *)
(* validation, user tracking, realtime-data lookups, image-intent routing, *)
(* system-prompt assembly, the model call and the streaming relay          *)
(* (generate); and, each under a specification of its own, of              *)
(* split_large_code (SplitSpec), of fetch_images_for_query (ImagesSpec),   *)
(* of the realtime section with weather() and the search answers in       *)
(* detail (RtSpec), of prompt assembly over longer message lists           *)
(* (PromptSpec), of upload_file (UploadSpec), of several /chat requests    *)
(* handled side by side (ServerSpec) and of the /chat/history endpoints    *)
(* (HistorySpec).                                                          *)
(*                                                                         *)
(* Text is modelled as a sequence of whitespace-separated words.  The      *)
(* regular expressions and substring tests of the handler are modelled by  *)
(* their effect on such word sequences; which keywords a word contains is  *)
(* tabulated for the words of Vocab.  External services (IP geolocation,   *)
(* web search, image search, the language model, the image generator)      *)
(* answer nondeterministically: each may return data, return nothing, or   *)
(* raise.  The database is assumed to accept every write.                  *)
(***************************************************************************)
EXTENDS Integers, Sequences, FiniteSets, TLC

\* ---------------------------------------------------------------- bounds
MaxWords == 3        \* words in the last message of a request
MaxHistory == 1      \* messages before the last message of a request
MaxFragments == 2    \* fragments delivered by one model stream
MaxResults == 2      \* entries of one image-search result list

MaxTextLen == 10     \* characters of a text handed to split_large_code
MaxTokens == 2       \* largest max_tokens handed to split_large_code
MaxPrefix == 3       \* freely chosen leading entries of an image-search result list

MaxContHistory == 3  \* messages before the last one, prompt assembly on its own
MaxRequests == 2     \* /chat requests in flight at the same time
MaxClock == 2        \* readings of the server's clock
MaxTurns == 2        \* chat turns stored or on their way, history endpoints

\* ------------------------------------------------------ program constants
MaxImages == 6       \* fetch_images_for_query keeps the first six URLs
CharsPerToken == 4   \* split_large_code: max_chars = max_tokens * 4
MaxContentSize == 500000   \* chat: largest accepted last message, in characters

\* ------------------------------------------------------------ vocabulary
S3Url == "https://b.s3.amazonaws.com/uploads/x.png"

Vocab == {"tournament", "Explain", "show", "pics", "of", "edit.pdf", S3Url}

\* Words of the utterances of the realtime-section model
RtVocab == {"weather", "in", "delhi", "tournament", "petrol", "stock", "health",
            "edit.pdf"}

\* str.lower() on one word
Lower(w) == IF w = "Explain" THEN "explain" ELSE w

LowerText(text) == [i \in 1..Len(text) |-> Lower(text[i])]

Range(s) == {s[i] : i \in 1..Len(s)}

\* Every sequence over S of length at most n
SeqsUpTo(S, n) == UNION {[1..k -> S] : k \in 0..n}

\* ------------------------------------------------- uploaded-image URLs
\* s3_pattern matches a whole word that is an S3 upload URL
IsS3Url(w) == w = S3Url

IsNotS3Url(w) == ~IsS3Url(w)

\* re.findall(s3_pattern, content)
FindImageUrls(content) == SelectSeq(content, IsS3Url)

\* re.sub(s3_pattern, '', content).strip()
CleanContent(content) == SelectSeq(content, IsNotS3Url)

\* ------------------------------------------------- smart routing markers
AudioKeywords == {".mp3", ".wav", ".m4a", ".flac", "audio", "transcribe"}

FileKeywords == {".pdf", ".docx", ".txt", ".xlsx", "file:", "document"}

BeautificationKeywords == {"beautify", "enhance", "improve", "edit", "retouch",
                           "upscale", "refine", "polish", "sharpen", "clarity",
                           "quality"}

\* The keywords (of any keyword list of the handler) that occur in word w as
\* a substring; the test is case-sensitive, as Python's `in` is.
SubstringsOf(w) ==
    CASE w = "tournament" -> {"tournament"}
      [] w = "edit.pdf"   -> {"edit", ".pdf"}
      [] w = "weather"    -> {"weather"}
      [] w = "petrol"     -> {"petrol"}
      [] w = "stock"      -> {"stock"}
      [] w = "health"     -> {"health"}
      [] OTHER            -> {}

\* any(keyword in text for keyword in keywords)
AnyKeywordIn(keywords, text) ==
    \E i \in 1..Len(text) : SubstringsOf(text[i]) \cap keywords # {}

IsTextOnly(content) ==
    LET has_audio == AnyKeywordIn(AudioKeywords, content)
        has_file == AnyKeywordIn(FileKeywords, content)
        has_image == FindImageUrls(content) # <<>>
    IN ~(has_audio \/ has_file \/ has_image)

\* ------------------------------------------------- realtime categories
Categories == <<"weather", "news", "sports", "stocks", "crypto", "fuel",
                "agriculture", "minerals", "environment", "health", "events",
                "travel", "extreme", "education">>

CategoryKeywords(c) ==
    CASE c = "weather"     -> {"weather", "climate", "temperature", "wind", "humidity", "forecast"}
      [] c = "news"        -> {"news", "headlines", "latest", "breaking", "updates"}
      [] c = "sports"      -> {"sports", "cricket", "football", "soccer", "basketball", "match", "score", "tournament"}
      [] c = "stocks"      -> {"stock", "share", "market", "sensex", "nifty", "nasdaq", "dow jones"}
      [] c = "crypto"      -> {"crypto", "bitcoin", "ethereum", "btc", "eth", "blockchain", "nft"}
      [] c = "fuel"        -> {"petrol", "fuel", "diesel", "gas", "price", "lpg"}
      [] c = "agriculture" -> {"soil", "agriculture", "farming", "crop", "harvest", "fertilizer"}
      [] c = "minerals"    -> {"coal", "mineral", "mining", "ore", "iron", "copper", "gold"}
      [] c = "environment" -> {"air quality", "pollution", "aqi", "pm2.5", "environment", "ozone"}
      [] c = "health"      -> {"health", "disease", "virus", "covid", "medicine", "treatment", "hospital"}
      [] c = "events"      -> {"event", "conference", "concert", "festival", "tournament", "meeting"}
      [] c = "travel"      -> {"traffic", "flight", "travel", "route", "transport", "commute"}
      [] c = "extreme"     -> {"rain", "flood", "storm", "cyclone", "hurricane", "tsunami", "earthquake"}
      [] c = "education"   -> {"education", "admission", "exam", "neet", "jee", "board", "result"}

\* re.search(r"in\s+([a-zA-Z\s]+)", last_user): a word ending in "in"
\* followed by a word that starts with a letter
EndsWithIn(w) == w \in {"explain", "in"}

StartsWithLetter(w) == w \in {Lower(v) : v \in Vocab \cup RtVocab}

LocationMatch(last_user) ==
    \E i \in 1..(Len(last_user) - 1) :
        EndsWithIn(last_user[i]) /\ StartsWithLetter(last_user[i + 1])

\* The category's keyword test holds for the utterance
Matches(c, last_user) == AnyKeywordIn(CategoryKeywords(c), last_user)

IssuesLookupOrGeneralSearch(c, last_user) ==
    \/ Matches(c, last_user) /\ (c = "weather" => LocationMatch(last_user))
    \/ c = "news"

\* The category's block issues its lookup: weather only with a city
IssuesLookup(c, last_user) ==
    Matches(c, last_user) /\ (c = "weather" => LocationMatch(last_user))

Triggered(last_user) ==
    {Categories[i] : i \in {j \in 1..Len(Categories) : IssuesLookup(Categories[j], last_user)}}

\* One lookup answers with data, answers without usable data, or raises
LookupOutcomes == {"data", "empty", "raise"}

Snippet(c) == [category |-> c, text |-> "data"]

\* The body of the try block of the realtime section, from category i on:
\* the categories are checked in declaration order; a lookup that raises
\* leaves the block, keeping the snippets appended so far.
RECURSIVE FetchFrom(_, _, _, _, _)
FetchFrom(i, last_user, outcome, info, issued) ==
    IF i > Len(Categories)
    THEN [info |-> info, lookups |-> issued, raised |-> FALSE]
    ELSE LET c == Categories[i] IN
         IF ~IssuesLookup(c, last_user)
         THEN FetchFrom(i + 1, last_user, outcome, info, issued)
         ELSE IF outcome[c] = "raise"
         THEN [info |-> info, lookups |-> Append(issued, c), raised |-> TRUE]
         ELSE FetchFrom(i + 1, last_user, outcome,
                        IF outcome[c] = "data" THEN Append(info, Snippet(c)) ELSE info,
                        Append(issued, c))

FetchRealtime(last_user, outcome) == FetchFrom(1, last_user, outcome, <<>>, <<>>)

\* Where the handler continues after the realtime section: the except
\* clause logs the error and falls through
AfterRealtimePropagating(raised) == IF raised THEN "error500" ELSE "route"

AfterRealtime(raised) == "route"

\* ------------------------------------------------- image-intent routing
ExplanationWords == {"explain", "describe"}

ExplanationPairs == {<<"what", "is">>, <<"what", "are">>, <<"how", "does">>,
                     <<"who", "is">>, <<"why", "is">>}

IsExplanationRequest(lower_text) ==
    \/ \E i \in 1..Len(lower_text) : lower_text[i] \in ExplanationWords
    \/ \E i \in 1..(Len(lower_text) - 1) :
           <<lower_text[i], lower_text[i + 1]>> \in ExplanationPairs
    \/ \E i \in 1..(Len(lower_text) - 2) :
           <<lower_text[i], lower_text[i + 1], lower_text[i + 2]>> = <<"tell", "me", "about">>

ImageVerbs == {"show", "find", "get", "generate", "search", "view", "display"}

\* images?|photos?|pictures?|pics?|diagrams?|sketches? occurs in / ends the word
ContainsImageNoun(w) == w \in {"pics"}

EndsWithImageNoun(w) == w \in {"pics"}

StartsWithOf(w) == w \in {"of"}

MatchesPureImagePattern(lower_text) ==
    \/ /\ Len(lower_text) >= 2
       /\ lower_text[1] \in ImageVerbs
       /\ \E j \in 2..Len(lower_text) : ContainsImageNoun(lower_text[j])
    \/ \E i \in 1..(Len(lower_text) - 1) :
           EndsWithImageNoun(lower_text[i]) /\ StartsWithOf(lower_text[i + 1])

IsPureImageRequestIgnoringExplanation(lower_text) == MatchesPureImagePattern(lower_text)

IsPureImageRequest(lower_text) ==
    MatchesPureImagePattern(lower_text) /\ ~IsExplanationRequest(lower_text)

ImageStopWords == {"show", "give", "me", "some", "images", "image", "photos",
                   "pictures", "pics", "of", "about", "explain", "with",
                   "describe", "what", "is", "how", "does", "generate", "view",
                   "display", "see", "to", "in", "on", "the", "a", "an"}

IsNotImageStopWord(w) == Lower(w) \notin ImageStopWords

extract_image_query(text) == SelectSeq(text, IsNotImageStopWord)

SearchQuery(user_text) ==
    IF extract_image_query(user_text) # <<>>
    THEN extract_image_query(user_text)
    ELSE user_text

\* The "original" fields of an image-search result list; "" is a result
\* without one
ImageUrlPool == {"u1", "u2", ""}

ImageOutcomes ==
    {[kind |-> k, results |-> <<>>] : k \in {"nokey", "raise", "noresults"}}
        \cup {[kind |-> "ok", results |-> r] : r \in SeqsUpTo(ImageUrlPool, MaxResults)}

IsOriginal(u) == u # ""

\* list(dict.fromkeys(urls)): first occurrences, in order
RECURSIVE Dedupe(_)
Dedupe(urls) ==
    IF urls = <<>> THEN <<>>
    ELSE LET front == Dedupe(SubSeq(urls, 1, Len(urls) - 1))
             last == urls[Len(urls)]
         IN IF last \in Range(front) THEN front ELSE Append(front, last)

TakeAll(s, n) == s

\* s[:n]
Take(s, n) == SubSeq(s, 1, IF Len(s) < n THEN Len(s) ELSE n)

fetch_images_for_query(outcome) ==
    IF outcome.kind = "ok"
    THEN Take(Dedupe(SelectSeq(outcome.results, IsOriginal)), MaxImages)
    ELSE <<>>

\* ------------------------------------------------- messages
Roles == {"system", "user", "assistant"}

\* A message {role, content}; images holds the image_url items of a
\* structured (vision) content and is empty for plain text content
Msg(role, content) == [role |-> role, content |-> content, images |-> <<>>]

HistoryMessages == {Msg("system", <<"hi">>), Msg("user", <<"hi">>),
                    Msg("assistant", <<>>), Msg("assistant", <<"hi">>)}

Utterances == SeqsUpTo(Vocab, MaxWords)

\* ChatRequest.messages: the empty list, or a history followed by the last
\* message
MessageLists ==
    {<<>>} \cup {h \o <<Msg(r, u)>> : h \in SeqsUpTo(HistoryMessages, MaxHistory),
                                      r \in Roles, u \in Utterances}

\* Two long words, named by their length: 500000 and 500001 digits
AtLimitWord == "0{500000}"

OverLimitWord == "0{500001}"

\* len() of one word
CharLen(w) ==
    CASE w = AtLimitWord   -> MaxContentSize
      [] w = OverLimitWord -> MaxContentSize + 1
      [] OTHER             -> Len(w)

\* len(last_message_content): the words and the blanks between them
RECURSIVE content_size(_)
content_size(content) ==
    IF content = <<>> THEN 0
    ELSE IF Len(content) = 1 THEN CharLen(content[1])
    ELSE CharLen(Head(content)) + 1 + content_size(Tail(content))

\* Requests whose last message is one long word
LargeMessageLists ==
    {h \o <<Msg(r, <<w>>)>> : h \in SeqsUpTo(HistoryMessages, MaxHistory),
                              r \in Roles, w \in {AtLimitWord, OverLimitWord}}

ReceivedLists == MessageLists \cup LargeMessageLists

ClientIps == {"127.0.0.1", "203.0.113.9"}

IsLoopback(ip) == ip \in {"127.0.0.1", "::1", "localhost"}

GeoOutcomes == {"skipped", "success", "raise"}

DefaultVisionPrompt == <<"analyze">>

BeautificationPrompt == <<"assess">>

LastOf(s) == s[Len(s)]

\* messages_to_send: copies, the last message carrying the cleaned content
MessagesToSend(msgs) ==
    LET content == LastOf(msgs).content
        clean_content == CleanContent(content)
    IN [msgs EXCEPT ![Len(msgs)].content =
            IF clean_content # <<>> THEN clean_content ELSE content]

\* final_messages before the system prompt is injected: with uploaded images
\* the last message is replaced by a vision message of role user
VisionMessages(msgs) ==
    LET content == LastOf(msgs).content
        urls == FindImageUrls(content)
        clean_content == CleanContent(content)
        text_prompt == IF clean_content # <<>> THEN clean_content ELSE DefaultVisionPrompt
    IN IF urls # <<>>
       THEN [MessagesToSend(msgs) EXCEPT ![Len(msgs)] =
                [role |-> "user", content |-> text_prompt, images |-> urls]]
       ELSE MessagesToSend(msgs)

\* ------------------------------------------------- prompt assembly
Block(tag, body) == [tag |-> tag, body |-> body]

ContinuationCount(msgs, role) == Cardinality({i \in 1..Len(msgs) : msgs[i].role = role})

IsContinuationWithAnyAssistantContent(msgs) ==
    /\ ContinuationCount(msgs, "user") = 1
    /\ \E i \in 1..Len(msgs) : msgs[i].role = "assistant" /\ msgs[i].content # <<>>

\* is_continuation_request
IsContinuation(msgs) ==
    /\ ContinuationCount(msgs, "user") = 1
    /\ ContinuationCount(msgs, "assistant") >= 1
    /\ LET last_assistant ==
               CHOOSE i \in 1..Len(msgs) :
                   /\ msgs[i].role = "assistant"
                   /\ \A j \in (i + 1)..Len(msgs) : msgs[j].role # "assistant"
       IN msgs[last_assistant].content # <<>>

AppendIf(cond, s, e) == IF cond THEN Append(s, e) ELSE s

\* Variants of the assembly with one block misplaced or made conditional
SystemPromptGuardOnlyWithRealtime(info, images_shown, continuation) ==
    LET p1 == <<Block("persona", <<>>)>>
        p2 == AppendIf(info # <<>>, p1, Block("realtime", info))
        p3 == Append(p2, Block("timestamp", <<>>))
        p4 == AppendIf(images_shown, p3, Block("image_rules", <<>>))
        p5 == Append(p4, Block("user_context", <<>>))
        p6 == AppendIf(info # <<>>, p5, Block("anti_disclaimer", <<>>))
    IN AppendIf(continuation, p6, Block("continuation", <<>>))

SystemPromptContextFirst(info, images_shown, continuation) ==
    LET p1 == <<Block("persona", <<>>)>>
        p2 == Append(p1, Block("user_context", <<>>))
        p3 == AppendIf(info # <<>>, p2, Block("realtime", info))
        p4 == Append(p3, Block("timestamp", <<>>))
        p5 == AppendIf(images_shown, p4, Block("image_rules", <<>>))
        p6 == Append(p5, Block("anti_disclaimer", <<>>))
    IN AppendIf(continuation, p6, Block("continuation", <<>>))

\* system_prompt as the handler builds it, block by block
SystemPrompt(info, images_shown, continuation) ==
    LET p1 == <<Block("persona", <<>>)>>
        p2 == AppendIf(info # <<>>, p1, Block("realtime", info))
        p3 == Append(p2, Block("timestamp", <<>>))
        p4 == AppendIf(images_shown, p3, Block("image_rules", <<>>))
        p5 == Append(p4, Block("user_context", <<>>))
        p6 == Append(p5, Block("anti_disclaimer", <<>>))
    IN AppendIf(continuation, p6, Block("continuation", <<>>))

\* Safe system prompt injection
InjectSystemPrompt(msgs, prompt) ==
    IF msgs # <<>> /\ msgs[1].role = "system"
    THEN [msgs EXCEPT ![1].content = prompt]
    ELSE <<[role |-> "system", content |-> prompt, images |-> <<>>]>> \o msgs

\* The beautification branch rewrites the text item of a vision message
WithBeautificationPrompt(msgs, is_beautification) ==
    IF /\ is_beautification
       /\ LastOf(msgs).role = "user"
       /\ LastOf(msgs).images # <<>>
    THEN [msgs EXCEPT ![Len(msgs)].content = BeautificationPrompt]
    ELSE msgs

\* ------------------------------------------------- streaming relay
\* One item of the model stream: without choices, or with a delta whose
\* content may be empty
Fragments ==
    {[choices |-> FALSE, content |-> <<>>]}
        \cup {[choices |-> TRUE, content |-> c] : c \in {<<>>, <<"a">>, <<"b">>}}

HasText(frag) == frag.choices /\ frag.content # <<>>

AccumulateOverwriting(full, content) == content

\* full_reply += content
Accumulate(full, content) == full \o content

ImagesShownAlways(fetch_upfront, urls) == fetch_upfront

\* fetch_images_upfront and image_urls
ImagesShown(fetch_upfront, urls) == fetch_upfront /\ urls # <<>>

ChunkEvent(content) == [type |-> "chunk", data |-> content]

ImagesEvent(urls) == [type |-> "images", data |-> urls]

BeautifiedEvent(url) == [type |-> "beautified_image", data |-> url]

FinalEvent(full, images, id) ==
    [type |-> "final", data |-> full, images |-> images, message_id |-> id]

\* next((m['content'] for m in reversed(messages) if m['role'] == 'user'), '')
LastUserMessage(msgs) ==
    IF \E i \in 1..Len(msgs) : msgs[i].role = "user"
    THEN msgs[CHOOSE i \in 1..Len(msgs) :
                  /\ msgs[i].role = "user"
                  /\ \A j \in (i + 1)..Len(msgs) : msgs[j].role # "user"].content
    ELSE <<>>

insert_one_dropping(coll, doc) == coll

\* collection.insert_one(doc): the document is stored under a fresh _id
\* An _id no document of the collection has
NextId(coll) ==
    IF coll = <<>> THEN 1
    ELSE 1 + CHOOSE m \in {coll[i]._id : i \in 1..Len(coll)} :
                 \A i \in 1..Len(coll) : coll[i]._id <= m

insert_one(coll, doc) == Append(coll, [_id |-> NextId(coll), doc |-> doc])

\* ------------------------------------------------- state
VARIABLES
    pc,                         \* position of the request in the handler / generator
    request,                    \* the request as received: messages, client ip
    messages,                   \* payload.messages, as the handler mutates it
    final_messages,             \* the list handed to the model call
    image_urls_in_message,
    is_text_only,
    realtime_info,              \* the collected snippets
    lookups,                    \* categories whose lookup was issued, in order
    failures,                   \* optional enrichments that raised
    fetch_images_upfront,
    image_searches,             \* queries of the up-front image searches issued
    image_urls,
    system_prompt,
    is_beautification_request,
    model_calls,                \* outcomes of the model calls started
    stream,                     \* the model stream: none, open, exhausted or raised
    arrived,                    \* fragments received from the model stream
    full_reply,
    events,                     \* events yielded to the caller
    beautified_image_url,
    inserted_id,
    chats,                      \* chats collection
    tracking,                   \* tracking collection
    response,                   \* status and detail of the HTTP answer, once decided
    text,                       \* split_large_code: the text to split
    max_tokens,                 \* split_large_code: the token budget
    line_no,                    \* split_large_code: lines consumed by the loop
    chunks,
    current_chunk,
    current_size,
    decisions,                  \* split_large_code: what the loop did with each line
    search_outcome,             \* fetch_images_for_query: the provider's answer
    category_no,                \* realtime section: category blocks passed
    last_lookup,                \* realtime section: the latest lookup and its answer
    upload,                     \* upload_file: the uploaded file
    local_files,                \* files on the local disk
    s3_objects,                 \* keys stored in the bucket
    files,                      \* files collection
    extraction,                 \* upload_file: how the extraction helper answered
    extracted_text,
    upload_response,            \* upload_file: status and body of the answer
    handlers,                   \* the /chat requests in flight, each with its locals
    clock,                      \* the server's clock, datetime.utcnow()
    pending,                    \* chat turns handled and not yet stored by generate()
    history_call                \* the latest call of a /chat/history endpoint

vars == <<pc, request, messages, final_messages, image_urls_in_message,
          is_text_only, realtime_info, lookups, failures, fetch_images_upfront,
          image_searches, image_urls, system_prompt, is_beautification_request,
          model_calls, stream, arrived, full_reply, events, beautified_image_url,
          inserted_id, chats, tracking, response, text, max_tokens, line_no, chunks,
          current_chunk, current_size, decisions, search_outcome, category_no,
          last_lookup, upload, local_files, s3_objects, files, extraction,
          extracted_text, upload_response, handlers, clock,
          pending, history_call>>

handlerVars == <<messages, final_messages, image_urls_in_message, is_text_only,
                 realtime_info, lookups, fetch_images_upfront, image_searches,
                 image_urls, system_prompt, is_beautification_request, model_calls>>

relayVars == <<stream, arrived, full_reply, events, beautified_image_url, inserted_id,
               chats>>

\* State of the helpers that are modelled on their own
splitVars == <<text, max_tokens, line_no, chunks, current_chunk, current_size, decisions>>

\* State of the endpoints other than /chat
uploadVars == <<upload, local_files, s3_objects, files, extraction, extracted_text,
                upload_response>>

serverVars == <<handlers, clock>>

historyVars == <<pending, history_call>>

serviceVars == <<uploadVars, serverVars, historyVars>>

toolVars == <<splitVars, search_outcome, category_no, last_lookup, serviceVars>>

NoRequest == [messages |-> <<>>, ip |-> ""]

NoResponse == [status |-> 0, detail |-> <<>>]

\* raise HTTPException(status_code=..., detail=...)
HTTPException(status_code, detail) == [status |-> status_code, detail |-> detail]

Now == 1

\* No split_large_code call is in progress
SplitIdle ==
    /\ text = <<>>
    /\ max_tokens = 0
    /\ line_no = 0
    /\ chunks = <<>>
    /\ current_chunk = <<>>
    /\ current_size = 0
    /\ decisions = <<>>

NoLookup == [category |-> "", location |-> <<>>, answer |-> "none"]

NoUpload == [ext |-> "", size |-> 0]

NoUploadResponse == [status |-> 0, detail |-> <<>>, text |-> <<>>, image_url |-> "None"]

NoExtraction == [kind |-> "none", error |-> "", audio_left |-> FALSE]

\* No upload is in progress
UploadIdle ==
    /\ upload = NoUpload
    /\ local_files = {}
    /\ s3_objects = {}
    /\ files = <<>>
    /\ extraction = NoExtraction
    /\ extracted_text = <<>>
    /\ upload_response = NoUploadResponse

\* Requests the server handles side by side
ReqIds == 1..MaxRequests

IdleHandler == [pc |-> "idle", ip |-> "", ua |-> <<>>, messages |-> <<>>, now |-> 0,
                realtime_info |-> <<>>, system_prompt |-> <<>>]

ServerIdle ==
    /\ handlers = [r \in ReqIds |-> IdleHandler]
    /\ clock = 1

Null == "null"

\* A key a document does not have, a field a payload leaves out
Absent == <<>>

Some(v) == <<v>>

\* ChatUpdate payloads
ChatUpdate(title, is_pinned, is_archived) ==
    [title |-> title, is_pinned |-> is_pinned, is_archived |-> is_archived]

NoCall == [op |-> "none", session_id |-> Null, email |-> Null,
           payload |-> ChatUpdate(Absent, Absent, Absent),
           answer |-> [status |-> "", result |-> <<>>]]

HistoryIdle ==
    /\ pending = <<>>
    /\ history_call = NoCall

ServicesIdle == UploadIdle /\ ServerIdle /\ HistoryIdle

ToolsIdle ==
    /\ SplitIdle
    /\ search_outcome = [kind |-> "nokey", results |-> <<>>]
    /\ category_no = 0
    /\ last_lookup = NoLookup
    /\ ServicesIdle

\* No /chat request has been received
ChatIdle ==
    /\ request = NoRequest
    /\ messages = <<>>
    /\ final_messages = <<>>
    /\ image_urls_in_message = <<>>
    /\ is_text_only = FALSE
    /\ realtime_info = <<>>
    /\ lookups = <<>>
    /\ failures = {}
    /\ fetch_images_upfront = FALSE
    /\ image_searches = <<>>
    /\ image_urls = <<>>
    /\ system_prompt = <<>>
    /\ is_beautification_request = FALSE
    /\ model_calls = <<>>
    /\ stream = "none"
    /\ arrived = <<>>
    /\ full_reply = <<>>
    /\ events = <<>>
    /\ beautified_image_url = ""
    /\ inserted_id = 0
    /\ chats = <<>>
    /\ tracking = <<>>
    /\ response = NoResponse

Init ==
    /\ pc = "idle"
    /\ ChatIdle
    /\ ToolsIdle

\* ------------------------------------------------- the handler
\* if not messages or not messages[-1].get('content'): 400
IsRejected(msgs) == IF msgs = <<>> THEN TRUE ELSE LastOf(msgs).content = <<>>

\* Track user: insert on the first visit of an ip, update afterwards
TrackUser(coll, ip, geo_ok) ==
    IF \E i \in 1..Len(coll) : coll[i].doc.ip = ip
    THEN LET i == CHOOSE k \in 1..Len(coll) :
                      /\ coll[k].doc.ip = ip
                      /\ \A j \in 1..(k - 1) : coll[j].doc.ip # ip
         IN [coll EXCEPT ![i].doc.last_active = Now, ![i].doc.geo = geo_ok \/ @]
    ELSE insert_one(coll, [ip |-> ip, last_active |-> Now, first_visit |-> Now,
                           geo |-> geo_ok])

ChatReject ==
    /\ pc = "idle"
    /\ \E msgs \in ReceivedLists, ip \in ClientIps :
           /\ IsRejected(msgs)
           /\ request' = [messages |-> msgs, ip |-> ip]
    /\ pc' = "error400"
    /\ response' = HTTPException(400, <<"Messages required">>)
    /\ UNCHANGED <<handlerVars, relayVars, failures, tracking>>
    /\ UNCHANGED toolVars

IsTooLargeFromLimit(msgs) == content_size(LastOf(msgs).content) >= MaxContentSize

\* if content_size > 500000: 413
IsTooLarge(msgs) == content_size(LastOf(msgs).content) > MaxContentSize

\* Validate message size
ChatTooLarge ==
    /\ pc = "idle"
    /\ \E msgs \in ReceivedLists, ip \in ClientIps :
           /\ IF IsRejected(msgs) THEN FALSE ELSE IsTooLarge(msgs)
           /\ request' = [messages |-> msgs, ip |-> ip]
    /\ pc' = "error413"
    /\ response' = HTTPException(413, <<"Message too large">>)
    /\ UNCHANGED <<handlerVars, relayVars, failures, tracking>>
    /\ UNCHANGED toolVars

\* Validation, geolocation, tracking, vision message, routing flags
ChatReceive ==
    /\ pc = "idle"
    /\ \E msgs \in ReceivedLists, ip \in ClientIps, geo \in GeoOutcomes :
           /\ IF IsRejected(msgs) THEN FALSE ELSE ~IsTooLarge(msgs)
           /\ IsLoopback(ip) <=> geo = "skipped"
           /\ request' = [messages |-> msgs, ip |-> ip]
           /\ messages' = msgs
           /\ image_urls_in_message' = FindImageUrls(LastOf(msgs).content)
           /\ failures' = IF geo = "raise" THEN {"geo"} ELSE {}
           /\ tracking' = TrackUser(tracking, ip, geo = "success")
           /\ final_messages' = VisionMessages(msgs)
           /\ is_text_only' = IsTextOnly(LastOf(msgs).content)
    /\ pc' = "realtime"
    /\ UNCHANGED <<realtime_info, lookups, fetch_images_upfront, image_searches,
                   image_urls, system_prompt, is_beautification_request,
                   model_calls, relayVars, response>>
    /\ UNCHANGED toolVars

last_user == LowerText(LastOf(request.messages).content)

\* Realtime data injection, only for text-only requests
RealtimeFetch ==
    /\ pc = "realtime"
    /\ \/ /\ is_text_only
          /\ \E outcome \in [Triggered(last_user) -> LookupOutcomes] :
                 LET r == FetchRealtime(last_user, outcome) IN
                 /\ realtime_info' = r.info
                 /\ lookups' = r.lookups
                 /\ failures' = IF r.raised THEN failures \cup {"realtime"} ELSE failures
                 /\ pc' = AfterRealtime(r.raised)
       \/ /\ ~is_text_only
          /\ pc' = "route"
          /\ UNCHANGED <<realtime_info, lookups, failures>>
    /\ UNCHANGED <<request, messages, final_messages, image_urls_in_message,
                   is_text_only, fetch_images_upfront, image_searches, image_urls,
                   system_prompt, is_beautification_request, model_calls,
                   relayVars, tracking, response>>
    /\ UNCHANGED toolVars

\* Image-intent routing and the up-front image search of a pure-image request
RouteImages ==
    /\ pc = "route"
    /\ LET user_text == LastOf(request.messages).content
           lower_text == LowerText(user_text)
       IN /\ fetch_images_upfront' = IsPureImageRequest(lower_text)
          /\ \/ /\ IsPureImageRequest(lower_text)
                /\ \E outcome \in ImageOutcomes :
                       /\ image_searches' = Append(image_searches, SearchQuery(user_text))
                       /\ image_urls' = fetch_images_for_query(outcome)
                       /\ failures' = IF outcome.kind = "raise"
                                      THEN failures \cup {"images"} ELSE failures
             \/ /\ ~IsPureImageRequest(lower_text)
                /\ UNCHANGED <<image_searches, image_urls, failures>>
    /\ pc' = "assemble"
    /\ UNCHANGED <<request, messages, final_messages, image_urls_in_message,
                   is_text_only, realtime_info, lookups, system_prompt,
                   is_beautification_request, model_calls, relayVars, tracking,
                   response>>
    /\ UNCHANGED toolVars

\* System prompt assembly and injection, beautification prompt
AssemblePrompt ==
    /\ pc = "assemble"
    /\ LET prompt == SystemPrompt(realtime_info,
                                  ImagesShown(fetch_images_upfront, image_urls),
                                  IsContinuation(final_messages))
           clean_content == CleanContent(LastOf(request.messages).content)
           is_beautification ==
               /\ image_urls_in_message # <<>>
               /\ AnyKeywordIn(BeautificationKeywords, LowerText(clean_content))
       IN /\ system_prompt' = prompt
          /\ messages' = InjectSystemPrompt(messages, prompt)
          /\ is_beautification_request' = is_beautification
          /\ final_messages' =
                 WithBeautificationPrompt(InjectSystemPrompt(final_messages, prompt),
                                          is_beautification)
    /\ pc' = "call"
    /\ UNCHANGED <<request, image_urls_in_message, is_text_only, realtime_info,
                   lookups, failures, fetch_images_upfront, image_searches,
                   image_urls, model_calls, relayVars, tracking, response>>
    /\ UNCHANGED toolVars

\* What the exception of a failed model call says
ModelErrors == {"timeout", "rate limit"}

\* Starting the model call returns a stream or raises
ModelOutcomes ==
    {[kind |-> "ok", error |-> ""]}
        \cup {[kind |-> "raise", error |-> e] : e \in ModelErrors}

AfterModelCallStreamingAnyway(kind) == "gen_start"

\* except Exception: raise HTTPException(500); else the generator is returned
AfterModelCall(kind) == IF kind = "ok" THEN "gen_start" ELSE "error500"

\* StreamingResponse(generate()), or status 500 with the error in the detail
ModelResponse(outcome) ==
    IF outcome.kind = "ok"
    THEN [status |-> 200, detail |-> <<>>]
    ELSE HTTPException(500, <<"AI service error", outcome.error>>)

\* openai_client.chat.completions.create(..., stream=True): one attempt
ModelCall ==
    /\ pc = "call"
    /\ \E outcome \in ModelOutcomes :
           /\ model_calls' = Append(model_calls, outcome.kind)
           /\ stream' = IF outcome.kind = "ok" THEN "open" ELSE stream
           /\ response' = ModelResponse(outcome)
           /\ pc' = AfterModelCall(outcome.kind)
    /\ UNCHANGED <<request, messages, final_messages, image_urls_in_message,
                   is_text_only, realtime_info, lookups, failures,
                   fetch_images_upfront, image_searches, image_urls, system_prompt,
                   is_beautification_request, arrived, full_reply, events,
                   beautified_image_url, inserted_id, chats, tracking>>
    /\ UNCHANGED toolVars

\* ------------------------------------------------- generate()
handlerState == <<request, messages, final_messages, image_urls_in_message,
                  is_text_only, realtime_info, lookups, failures,
                  fetch_images_upfront, image_searches, image_urls, system_prompt,
                  is_beautification_request, model_calls, tracking, response>>

\* Send images immediately if available for pure image requests
GenStart ==
    /\ pc = "gen_start"
    /\ events' = IF ImagesShown(fetch_images_upfront, image_urls)
                 THEN Append(events, ImagesEvent(image_urls))
                 ELSE events
    /\ pc' = "gen_loop"
    /\ UNCHANGED <<handlerState, stream, arrived, full_reply, beautified_image_url,
                   inserted_id, chats>>
    /\ UNCHANGED toolVars

\* One iteration of `for chunk in response`
GenChunk ==
    /\ pc = "gen_loop"
    /\ Len(arrived) < MaxFragments
    /\ \E frag \in Fragments :
           /\ arrived' = Append(arrived, frag)
           /\ \/ /\ HasText(frag)
                 /\ full_reply' = Accumulate(full_reply, frag.content)
                 /\ events' = Append(events, ChunkEvent(frag.content))
              \/ /\ ~HasText(frag)
                 /\ UNCHANGED <<full_reply, events>>
    /\ pc' = "gen_loop"
    /\ UNCHANGED <<handlerState, stream, beautified_image_url, inserted_id, chats>>
    /\ UNCHANGED toolVars

AfterStreamIgnoringError(stream_state) == "gen_beautify"

\* Where generate() continues when `for chunk in response` ends: after the
\* loop, or nowhere when the iteration raised (nothing catches it)
AfterStream(stream_state) ==
    IF stream_state = "raised" THEN "gen_crashed" ELSE "gen_beautify"

\* The model stream is exhausted
GenStreamEnd ==
    /\ pc = "gen_loop"
    /\ stream' = "exhausted"
    /\ pc' = AfterStream("exhausted")
    /\ UNCHANGED <<handlerState, arrived, full_reply, events, beautified_image_url,
                   inserted_id, chats>>
    /\ UNCHANGED toolVars

\* The model stream raises while it is consumed: the generator ends there
GenStreamRaise ==
    /\ pc = "gen_loop"
    /\ stream' = "raised"
    /\ pc' = AfterStream("raised")
    /\ UNCHANGED <<handlerState, arrived, full_reply, events, beautified_image_url,
                   inserted_id, chats>>
    /\ UNCHANGED toolVars

\* Generate the beautified image; a failure is logged and skipped
GenBeautify ==
    /\ pc = "gen_beautify"
    /\ \/ /\ is_beautification_request /\ image_urls_in_message # <<>>
          /\ \E outcome \in {"ok", "raise"} :
                 \/ /\ outcome = "ok"
                    /\ beautified_image_url' = "beautified"
                    /\ events' = Append(events, BeautifiedEvent("beautified"))
                 \/ /\ outcome = "raise"
                    /\ UNCHANGED <<beautified_image_url, events>>
       \/ /\ ~(is_beautification_request /\ image_urls_in_message # <<>>)
          /\ UNCHANGED <<beautified_image_url, events>>
    /\ pc' = "gen_save"
    /\ UNCHANGED <<handlerState, stream, arrived, full_reply, inserted_id, chats>>
    /\ UNCHANGED toolVars

final_images ==
    IF beautified_image_url # "" THEN <<beautified_image_url>> ELSE image_urls

\* Save chat to DB
GenSave ==
    /\ pc = "gen_save"
    /\ chats' = insert_one(chats, [user_message |-> LastUserMessage(messages),
                                   ai_reply |-> full_reply,
                                   image_url |-> final_images,
                                   timestamp |-> Now])
    /\ inserted_id' = Len(chats) + 1
    /\ pc' = "gen_final"
    /\ UNCHANGED <<handlerState, stream, arrived, full_reply, events,
                   beautified_image_url>>
    /\ UNCHANGED toolVars

\* Send final response
GenFinal ==
    /\ pc = "gen_final"
    /\ events' = Append(events, FinalEvent(full_reply, final_images, inserted_id))
    /\ pc' = "done"
    /\ UNCHANGED <<handlerState, stream, arrived, full_reply, beautified_image_url,
                   inserted_id, chats>>
    /\ UNCHANGED toolVars

Next ==
    \/ ChatReject
    \/ ChatTooLarge
    \/ ChatReceive
    \/ RealtimeFetch
    \/ RouteImages
    \/ AssemblePrompt
    \/ ModelCall
    \/ GenStart
    \/ GenChunk
    \/ GenStreamEnd
    \/ GenStreamRaise
    \/ GenBeautify
    \/ GenSave
    \/ GenFinal

Spec == Init /\ [][Next]_vars

\* ------------------------------------------------- split_large_code
\* A text is a sequence of characters; NL is the newline character
NL == "\n"

Chars == {"a", NL}

Texts == SeqsUpTo(Chars, MaxTextLen)

\* text.split('\n')
RECURSIVE SplitLines(_)
SplitLines(t) ==
    IF \A i \in 1..Len(t) : t[i] # NL
    THEN <<t>>
    ELSE LET k == CHOOSE i \in 1..Len(t) : t[i] = NL /\ \A j \in 1..(i - 1) : t[j] # NL
         IN <<SubSeq(t, 1, k - 1)>> \o SplitLines(SubSeq(t, k + 1, Len(t)))

\* '\n'.join(parts)
RECURSIVE JoinLines(_)
JoinLines(parts) ==
    IF parts = <<>> THEN <<>>
    ELSE IF Len(parts) = 1 THEN parts[1]
    ELSE parts[1] \o <<NL>> \o JoinLines(Tail(parts))

lines == SplitLines(text)

max_chars == max_tokens * CharsPerToken

\* line_size = len(line) + 1
line_size(line) == Len(line) + 1

StartsNewChunkNotCountingNewline(size, line, chunk, limit) ==
    size + Len(line) > limit /\ chunk # <<>>

\* if current_size + line_size > max_chars and current_chunk
StartsNewChunk(size, line, chunk, limit) ==
    size + line_size(line) > limit /\ chunk # <<>>

SizeAfterCutForgettingLine(line) == 0

\* current_size = line_size
SizeAfterCut(line) == line_size(line)

ChunkOfNonEmptyLines(chunk) == JoinLines(SelectSeq(chunk, LAMBDA l : l # <<>>))

\* chunks.append('\n'.join(current_chunk))
ChunkOf(chunk) == JoinLines(chunk)

SplitCall ==
    /\ pc = "split_loop"
    /\ ChatIdle
    /\ text \in Texts
    /\ max_tokens \in 0..MaxTokens
    /\ line_no = 0
    /\ chunks = <<>>
    /\ current_chunk = <<>>
    /\ current_size = 0
    /\ decisions = <<>>
    /\ search_outcome = [kind |-> "nokey", results |-> <<>>]
    /\ category_no = 0
    /\ last_lookup = NoLookup
    /\ ServicesIdle

chatState == <<request, handlerVars, relayVars, failures, tracking, response>>

chatVars == <<chatState, serviceVars>>

\* One iteration of `for line in lines`
SplitLine ==
    /\ pc = "split_loop"
    /\ line_no < Len(lines)
    /\ LET line == lines[line_no + 1]
           cut == StartsNewChunk(current_size, line, current_chunk, max_chars)
       IN /\ chunks' = IF cut THEN Append(chunks, ChunkOf(current_chunk)) ELSE chunks
          /\ current_chunk' = IF cut THEN <<line>> ELSE Append(current_chunk, line)
          /\ current_size' = IF cut THEN SizeAfterCut(line)
                             ELSE current_size + line_size(line)
          /\ decisions' = Append(decisions,
                 [cut |-> cut,
                  nonempty |-> current_chunk # <<>>,
                  extended |-> Len(JoinLines(Append(current_chunk, line)))])
    /\ line_no' = line_no + 1
    /\ pc' = "split_loop"
    /\ UNCHANGED <<text, max_tokens, chatVars, search_outcome, category_no, last_lookup>>

\* if current_chunk: chunks.append(...); return chunks
SplitReturn ==
    /\ pc = "split_loop"
    /\ line_no = Len(lines)
    /\ chunks' = IF current_chunk # <<>>
                 THEN Append(chunks, ChunkOf(current_chunk))
                 ELSE chunks
    /\ pc' = "split_done"
    /\ UNCHANGED <<text, max_tokens, line_no, current_chunk, current_size, decisions,
                   chatVars, search_outcome, category_no, last_lookup>>

SplitNext ==
    \/ SplitLine
    \/ SplitReturn

SplitSpec == SplitCall /\ [][SplitNext]_vars

\* ------------------------------------------------- fetch_images_for_query
\* The result lists the image search may answer with: any short list over
\* PrefixUrls ("" is a result without an "original" field), followed by the
\* first k entries of ResultsTail, which holds more distinct URLs than
\* fetch_images_for_query keeps and repeats two URLs of the short list
PrefixUrls == {"u1", "u2", "u3", ""}

ResultsTail == <<"u3", "u4", "u5", "u6", "u7", "u8", "u1">>

ProviderResults ==
    {prefix \o SubSeq(ResultsTail, 1, k) :
        prefix \in SeqsUpTo(PrefixUrls, MaxPrefix), k \in 0..Len(ResultsTail)}

ProviderOutcomes ==
    {[kind |-> k, results |-> <<>>] : k \in {"nokey", "raise", "noresults"}}
        \cup {[kind |-> "ok", results |-> r] : r \in ProviderResults}

ImagesCall ==
    /\ pc = "img_call"
    /\ ChatIdle
    /\ SplitIdle
    /\ search_outcome \in ProviderOutcomes
    /\ category_no = 0
    /\ last_lookup = NoLookup
    /\ ServicesIdle

\* fetch_images_for_query(query) answers; an exception is caught inside
ImagesReturn ==
    /\ pc = "img_call"
    /\ image_urls' = fetch_images_for_query(search_outcome)
    /\ failures' = IF search_outcome.kind = "raise" THEN {"images"} ELSE {}
    /\ pc' = "img_done"
    /\ UNCHANGED <<request, messages, final_messages, image_urls_in_message,
                   is_text_only, realtime_info, lookups, fetch_images_upfront,
                   image_searches, system_prompt, is_beautification_request,
                   model_calls, relayVars, tracking, response, toolVars>>

ImagesNext == ImagesReturn

ImagesSpec == ImagesCall /\ [][ImagesNext]_vars

\* ------------------------------------------------- realtime section, in detail
\* The capture group ([a-zA-Z\s]+) runs over whole words made of letters and
\* ends inside the first word that holds another character
IsAllLetters(w) == w \notin {"edit.pdf", S3Url}

LeadingLetters(w) ==
    CASE w = "edit.pdf" -> "edit"
      [] w = S3Url      -> "https"
      [] OTHER          -> w

RECURSIVE LetterRun(_)
LetterRun(words) ==
    IF words = <<>> THEN <<>>
    ELSE IF IsAllLetters(Head(words)) THEN <<Head(words)>> \o LetterRun(Tail(words))
    ELSE <<LeadingLetters(Head(words))>>

DefaultLocation == <<"India">>

\* location = location_match.group(1).strip() if location_match else "India"
Location(utterance) ==
    IF LocationMatch(utterance)
    THEN LET i == CHOOSE k \in 1..(Len(utterance) - 1) :
                      /\ EndsWithIn(utterance[k]) /\ StartsWithLetter(utterance[k + 1])
                      /\ \A j \in 1..(k - 1) :
                             ~(EndsWithIn(utterance[j]) /\ StartsWithLetter(utterance[j + 1]))
         IN LetterRun(SubSeq(utterance, i + 1, Len(utterance)))
    ELSE DefaultLocation

\* re.sub(r"(show|give|latest|what|is|are|tell|me)", "", word)
StripFillers(w) ==
    CASE w = "tournament" -> "tournant"
      [] w = "show"       -> ""
      [] OTHER            -> w

IsNotBlank(w) == w # ""

\* q = re.sub(...).strip()
QueryWords(utterance) ==
    SelectSeq([i \in 1..Len(utterance) |-> StripFillers(utterance[i])], IsNotBlank)

\* The categories whose default query names the location
LocationQueryCategories == {"agriculture", "environment", "events", "travel", "extreme"}

\* The location a lookup works with (<<>>: none)
LookupLocation(c, utterance) ==
    CASE c \in {"weather", "fuel"} -> Location(utterance)
      [] c \in LocationQueryCategories ->
             IF QueryWords(utterance) = <<>> THEN Location(utterance) ELSE <<>>
      [] OTHER -> <<>>

\* A search.get_dict() answer: answer_box and the lists hold at most one
\* entry; "" is a missing field, <<>> a missing key
AnswerBoxes ==
    {<<>>} \cup {<<[answer |-> a, snippet |-> sn]>> :
                    a \in {"", "direct answer"}, sn \in {"", "box snippet"}}

OrganicResults ==
    {<<>>} \cup {<<[title |-> t, snippet |-> sn]>> :
                    t \in {"", "title"}, sn \in {"", "organic snippet"}}

ResultLists == {<<>>, <<[title |-> "result title"]>>}

SerpResponses ==
    {[raised |-> FALSE, answer_box |-> ab, organic_results |-> og, results |-> rs] :
        ab \in AnswerBoxes, og \in OrganicResults, rs \in ResultLists}

RaisedSearch ==
    [raised |-> TRUE, answer_box |-> <<>>, organic_results |-> <<>>, results |-> <<>>]

\* serp_search_raw answers or raises
SerpOutcomes == SerpResponses \cup {RaisedSearch}

\* x.get("answer") or x.get("snippet")
AnswerOrSnippet(box) == IF box.answer # "" THEN box.answer ELSE box.snippet

\* if "answer_box" in r: ... elif r.get("organic_results"): ...
AnswerOrOrganic(r) ==
    IF r.answer_box # <<>> THEN AnswerOrSnippet(r.answer_box[1])
    ELSE IF r.organic_results # <<>> THEN r.organic_results[1].snippet
    ELSE ""

HasTitle(item) == item.title # ""

\* [it.get("title") for it in items[:3] if it.get("title")]
Titles(items) ==
    LET kept == SelectSeq(Take(items, 3), HasTitle)
    IN [i \in 1..Len(kept) |-> kept[i].title]

\* news(): the items are built from organic_results
NewsItems(r) == r.organic_results

\* The temperature field of the weather endpoint: <<>> is an answer without it
Temperatures == {<<>>, <<0>>, <<21>>}

\* The environment of one weather() call: whether the weather key is
\* configured, how the weather endpoint answers, how the web search answers
WeatherOutcomes ==
    {[key |-> TRUE, endpoint |-> "ok", temp |-> t, serp |-> RaisedSearch] : t \in Temperatures}
        \cup {[key |-> k, endpoint |-> "raise", temp |-> <<>>, serp |-> sp] :
                 k \in BOOLEAN, sp \in SerpOutcomes}

\* weather(city)
weather(city, o) ==
    IF o.key /\ o.endpoint = "ok"
    THEN [raised |-> FALSE, searched |-> FALSE, city |-> <<"Delhi">>,
          temp_c |-> o.temp, summary |-> ""]
    ELSE IF o.serp.raised
    THEN [raised |-> TRUE, searched |-> TRUE, city |-> city,
          temp_c |-> <<>>, summary |-> ""]
    ELSE [raised |-> FALSE, searched |-> TRUE, city |-> city,
          temp_c |-> <<>>, summary |-> AnswerOrOrganic(o.serp)]

HasTemperatureByTruth(w) == w.temp_c # <<>> /\ w.temp_c # <<0>>

\* if w.get("temp_c") is not None
HasTemperature(w) == w.temp_c # <<>>

RtSnippet(c, items, place, temp) ==
    [category |-> c, text |-> items, place |-> place, temp |-> temp]

\* The snippets one category block appends for a lookup that answered
WeatherSnippets(w) ==
    IF HasTemperature(w)
    THEN <<RtSnippet("weather", <<"structured">>, w.city, w.temp_c)>>
    ELSE IF w.summary # ""
    THEN <<RtSnippet("weather", <<w.summary>>, <<>>, <<>>)>>
    ELSE <<>>

TitleSnippets(c, titles) ==
    IF titles # <<>> THEN <<RtSnippet(c, titles, <<>>, <<>>)>> ELSE <<>>

DataSnippets(c, data, place) ==
    IF data # "" THEN <<RtSnippet(c, <<data>>, place, <<>>)>> ELSE <<>>

\* health_data: titles of "results", else the answer box (str(None) when it
\* holds neither an answer nor a snippet)
HealthData(r) ==
    IF Titles(r.results) # <<>> THEN Titles(r.results)
    ELSE IF r.answer_box # <<>>
    THEN <<IF AnswerOrSnippet(r.answer_box[1]) # ""
           THEN AnswerOrSnippet(r.answer_box[1]) ELSE "None">>
    ELSE <<>>

AnswerCategories == {"stocks", "crypto", "agriculture", "minerals", "environment",
                     "travel", "extreme"}

TitleCategories == {"events", "education"}

RtUtterances == SeqsUpTo(RtVocab, MaxWords) \ {<<>>}

RtReceive ==
    /\ pc = "rt_block"
    /\ \E u \in RtUtterances :
           /\ request = [messages |-> <<Msg("user", u)>>, ip |-> "127.0.0.1"]
           /\ messages = <<Msg("user", u)>>
           /\ final_messages = <<Msg("user", u)>>
           /\ is_text_only = IsTextOnly(u)
    /\ image_urls_in_message = <<>>
    /\ realtime_info = <<>>
    /\ lookups = <<>>
    /\ failures = {}
    /\ fetch_images_upfront = FALSE
    /\ image_searches = <<>>
    /\ image_urls = <<>>
    /\ system_prompt = <<>>
    /\ is_beautification_request = FALSE
    /\ model_calls = <<>>
    /\ stream = "none"
    /\ arrived = <<>>
    /\ full_reply = <<>>
    /\ events = <<>>
    /\ beautified_image_url = ""
    /\ inserted_id = 0
    /\ chats = <<>>
    /\ tracking = <<>>
    /\ response = NoResponse
    /\ ToolsIdle

rtFrame == <<request, messages, final_messages, image_urls_in_message, is_text_only,
             fetch_images_upfront, image_searches, image_urls,
             is_beautification_request, model_calls, relayVars, tracking,
             response, splitVars, search_outcome, serviceVars>>

CurrentCategory == Categories[category_no + 1]

\* The current category block is entered with its keyword test true
InBlock(cs) ==
    /\ pc = "rt_block"
    /\ is_text_only
    /\ category_no < Len(Categories)
    /\ CurrentCategory \in cs
    /\ IssuesLookup(CurrentCategory, last_user)

\* The lookup of the current block answered (snippets) or raised: an
\* exception leaves the try block for the except clause
AfterLookup(answer, raised, snippets) ==
    /\ lookups' = Append(lookups, CurrentCategory)
    /\ last_lookup' = [category |-> CurrentCategory,
                       location |-> LookupLocation(CurrentCategory, last_user),
                       answer |-> answer]
    /\ realtime_info' = IF raised THEN realtime_info ELSE realtime_info \o snippets
    /\ failures' = IF raised THEN failures \cup {"realtime"} ELSE failures
    /\ category_no' = category_no + 1
    /\ pc' = IF raised THEN "rt_prompt" ELSE "rt_block"
    /\ UNCHANGED <<system_prompt, rtFrame>>

\* if is_text_only: ... else: skip the realtime section
RtSkip ==
    /\ pc = "rt_block"
    /\ ~is_text_only
    /\ pc' = "rt_prompt"
    /\ UNCHANGED <<realtime_info, lookups, failures, category_no, last_lookup,
                   system_prompt, rtFrame>>

\* A category block whose test fails (weather: also without a city)
RtNoMatch ==
    /\ pc = "rt_block"
    /\ is_text_only
    /\ category_no < Len(Categories)
    /\ ~IssuesLookup(CurrentCategory, last_user)
    /\ category_no' = category_no + 1
    /\ UNCHANGED <<pc, realtime_info, lookups, failures, last_lookup,
                   system_prompt, rtFrame>>

RtWeather ==
    /\ InBlock({"weather"})
    /\ \E o \in WeatherOutcomes :
           LET w == weather(Location(last_user), o)
           IN AfterLookup(o, w.raised, WeatherSnippets(w))

\* news and sports: headlines from news()
RtNews ==
    /\ InBlock({"news", "sports"})
    /\ \E r \in SerpOutcomes :
           AfterLookup(r, r.raised, TitleSnippets(CurrentCategory, Titles(NewsItems(r))))

\* stocks, crypto, agriculture, minerals, environment, travel, extreme weather
RtSearch ==
    /\ InBlock(AnswerCategories)
    /\ \E r \in SerpOutcomes :
           AfterLookup(r, r.raised, DataSnippets(CurrentCategory, AnswerOrOrganic(r), <<>>))

\* fuel_petrol(state=location, city="")
RtFuel ==
    /\ InBlock({"fuel"})
    /\ \E r \in SerpOutcomes :
           AfterLookup(r, r.raised,
                       DataSnippets("fuel", AnswerOrOrganic(r), Location(last_user)))

RtHealth ==
    /\ InBlock({"health"})
    /\ \E r \in SerpOutcomes :
           AfterLookup(r, r.raised, TitleSnippets("health", HealthData(r)))

\* events and education: titles of "results" only
RtTitles ==
    /\ InBlock(TitleCategories)
    /\ \E r \in SerpOutcomes :
           AfterLookup(r, r.raised, TitleSnippets(CurrentCategory, Titles(r.results)))

\* The try block ends after the last category
RtEnd ==
    /\ pc = "rt_block"
    /\ is_text_only
    /\ category_no = Len(Categories)
    /\ pc' = "rt_prompt"
    /\ UNCHANGED <<realtime_info, lookups, failures, category_no, last_lookup,
                   system_prompt, rtFrame>>

\* The realtime block and the blocks after it are appended to the prompt
RtPrompt ==
    /\ pc = "rt_prompt"
    /\ system_prompt' = SystemPrompt(realtime_info, FALSE, FALSE)
    /\ pc' = "rt_done"
    /\ UNCHANGED <<realtime_info, lookups, failures, category_no, last_lookup, rtFrame>>

RtNext ==
    \/ RtSkip
    \/ RtNoMatch
    \/ RtWeather
    \/ RtNews
    \/ RtSearch
    \/ RtFuel
    \/ RtHealth
    \/ RtTitles
    \/ RtEnd
    \/ RtPrompt

RtSpec == RtReceive /\ [][RtNext]_vars

\* ------------------------------------------------- prompt assembly alone
\* The continuation test and the injection over longer conversations: the
\* handler stands before the image-awareness block (nothing fetched, no
\* image search) with the request received and its client tracked.
ContHistoryMessages == {Msg("user", <<"hi">>), Msg("assistant", <<>>),
                        Msg("assistant", <<"hi">>)}

ContUtterances == {<<"tournament">>, <<S3Url>>}

ContMessageLists ==
    {h \o <<Msg(r, u)>> : h \in SeqsUpTo(ContHistoryMessages, MaxContHistory),
                          r \in {"user", "assistant"}, u \in ContUtterances}

PromptCall ==
    /\ pc = "assemble"
    /\ \E msgs \in ContMessageLists :
           /\ request = [messages |-> msgs, ip |-> "127.0.0.1"]
           /\ messages = msgs
           /\ final_messages = VisionMessages(msgs)
           /\ image_urls_in_message = FindImageUrls(LastOf(msgs).content)
           /\ is_text_only = IsTextOnly(LastOf(msgs).content)
    /\ realtime_info = <<>>
    /\ lookups = <<>>
    /\ failures = {}
    /\ fetch_images_upfront = FALSE
    /\ image_searches = <<>>
    /\ image_urls = <<>>
    /\ system_prompt = <<>>
    /\ is_beautification_request = FALSE
    /\ model_calls = <<>>
    /\ stream = "none"
    /\ arrived = <<>>
    /\ full_reply = <<>>
    /\ events = <<>>
    /\ beautified_image_url = ""
    /\ inserted_id = 0
    /\ chats = <<>>
    /\ tracking = TrackUser(<<>>, "127.0.0.1", FALSE)
    /\ response = NoResponse
    /\ ToolsIdle

PromptNext == AssemblePrompt

PromptSpec == PromptCall /\ [][PromptNext]_vars

\* ------------------------------------------------- upload_file
MaxFileSize == 10000000

ALLOWED_AUDIO_FORMATS == {"mp3", "wav", "m4a", "ogg", "webm"}

ALLOWED_IMAGE_FORMATS == {"jpg", "jpeg", "png", "bmp", "tiff", "webp"}

ALLOWED_VIDEO_FORMATS == {"mp4", "avi", "mov", "mkv", "webm"}

DocumentFormats == {"txt", "pdf", "docx"}

\* file.filename.split(".")[-1].lower() and len(file_content) of the upload
Uploads ==
    {[ext |-> e, size |-> n] : e \in {"txt", "mp3", "webm", "png", "mp4", "zip"},
                               n \in {1, MaxFileSize, MaxFileSize + 1}}

\* tmp.name of the NamedTemporaryFile
tmp_path == "tmp"

\* audio_path of extract_text_from_video
audio_path == "tmp_audio.wav"

s3_key == "uploads/k"

\* The branch of the if / elif chain the extension takes
ExtractorOf(ext) ==
    IF ext \in DocumentFormats THEN "Extraction"
    ELSE IF ext \in ALLOWED_AUDIO_FORMATS THEN "Transcription"
    ELSE IF ext \in ALLOWED_IMAGE_FORMATS THEN "OCR"
    ELSE IF ext \in ALLOWED_VIDEO_FORMATS THEN "Video transcription"
    ELSE "none"

ExtractionErrors == {"500: failed", "no such file"}

\* The helper returns the text or raises; extract_text_from_video may raise
\* after ffmpeg has written audio_path, which it then leaves behind
ExtractionOutcomes(ext) ==
    IF ExtractorOf(ext) = "none" THEN {NoExtraction}
    ELSE {[kind |-> "text", error |-> "", audio_left |-> FALSE]}
         \cup {[kind |-> "raise", error |-> e, audio_left |-> a] :
                  e \in ExtractionErrors,
                  a \in IF ExtractorOf(ext) = "Video transcription"
                        THEN BOOLEAN ELSE {FALSE}}

\* extracted_text: None (the empty sequence), the helper's text, or the
\* placeholder f"[<what> error: {e}]" of the except clause
ExtractedText(ext, outcome) ==
    CASE outcome.kind = "none"  -> <<>>
      [] outcome.kind = "text"  -> <<"text">>
      [] outcome.kind = "raise" -> <<"[", ExtractorOf(ext), "error:", outcome.error, "]">>

\* image_url of the answer: for an image the presigned URL, or the plain
\* bucket URL when generating it raises
PresignedUrls(ext) ==
    IF ext \in ALLOWED_IMAGE_FORMATS THEN {"presigned", "plain"} ELSE {"None"}

unlink_skipped(on_disk, path) == on_disk

\* if os.path.exists(path): os.unlink(path)
unlink(on_disk, path) == on_disk \ {path}

UploadReceive ==
    /\ pc = "up_received"
    /\ upload \in Uploads
    /\ local_files = {}
    /\ s3_objects = {}
    /\ files = <<>>
    /\ extraction = NoExtraction
    /\ extracted_text = <<>>
    /\ upload_response = NoUploadResponse
    /\ ChatIdle
    /\ SplitIdle
    /\ search_outcome = [kind |-> "nokey", results |-> <<>>]
    /\ category_no = 0
    /\ last_lookup = NoLookup
    /\ ServerIdle
    /\ HistoryIdle

uploadFrame == <<chatState, splitVars, search_outcome, category_no, last_lookup,
                 serverVars, historyVars>>

\* if file_size > 10000000: 413, before the temporary file exists
UploadReject ==
    /\ pc = "up_received"
    /\ upload.size > MaxFileSize
    /\ upload_response' = [status |-> 413, detail |-> <<"File too large">>,
                           text |-> <<>>, image_url |-> "None"]
    /\ pc' = "up_done"
    /\ UNCHANGED <<upload, local_files, s3_objects, files, extraction, extracted_text,
                   uploadFrame>>

\* with tempfile.NamedTemporaryFile(delete=False, ...) as tmp: tmp.write(...)
UploadSaveTemp ==
    /\ pc = "up_received"
    /\ upload.size <= MaxFileSize
    /\ local_files' = local_files \cup {tmp_path}
    /\ pc' = "up_s3"
    /\ UNCHANGED <<upload, s3_objects, files, extraction, extracted_text,
                   upload_response, uploadFrame>>

\* s3.upload_file: when it raises the finally clause runs and the exception
\* leaves the handler (answered 500)
UploadToS3 ==
    /\ pc = "up_s3"
    /\ \E outcome \in {"ok", "raise"} :
           \/ /\ outcome = "ok"
              /\ s3_objects' = s3_objects \cup {s3_key}
              /\ pc' = "up_extract"
              /\ UNCHANGED <<local_files, upload_response>>
           \/ /\ outcome = "raise"
              /\ local_files' = unlink(local_files, tmp_path)
              /\ upload_response' = [status |-> 500, detail |-> <<"Internal Server Error">>,
                                     text |-> <<>>, image_url |-> "None"]
              /\ pc' = "up_done"
              /\ UNCHANGED s3_objects
    /\ UNCHANGED <<upload, files, extraction, extracted_text, uploadFrame>>

\* The if / elif chain over the extension, each helper inside its own try,
\* and the finally clause
UploadExtract ==
    /\ pc = "up_extract"
    /\ \E outcome \in ExtractionOutcomes(upload.ext) :
           /\ extraction' = outcome
           /\ extracted_text' = ExtractedText(upload.ext, outcome)
           /\ local_files' =
                  unlink(IF outcome.audio_left THEN local_files \cup {audio_path}
                         ELSE local_files,
                         tmp_path)
    /\ pc' = "up_record"
    /\ UNCHANGED <<upload, s3_objects, files, upload_response, uploadFrame>>

\* files_collection.insert_one, the presigned URL of an image, the answer
UploadRecord ==
    /\ pc = "up_record"
    /\ files' = insert_one(files, [s3_key |-> s3_key, saved_name |-> "k"])
    /\ \E image_url \in PresignedUrls(upload.ext) :
           upload_response' = [status |-> 200, detail |-> <<>>, text |-> extracted_text,
                               image_url |-> image_url]
    /\ pc' = "up_done"
    /\ UNCHANGED <<upload, local_files, s3_objects, extraction, extracted_text,
                   uploadFrame>>

UploadNext ==
    \/ UploadReject
    \/ UploadSaveTemp
    \/ UploadToS3
    \/ UploadExtract
    \/ UploadRecord

UploadSpec == UploadReceive /\ [][UploadNext]_vars

\* ------------------------------------------------- concurrent /chat requests
\* chat is an `async def` without any await: the handler body of a request
\* runs on the event loop without another request in between; generate()
\* is iterated afterwards, side by side with other requests.
UserAgents == {<<"Windows", "Chrome", "Safari">>, <<"iPhone", "Safari">>}

\* ua.lower(), word by word
LowerUa(ua) ==
    {CASE w = "Windows" -> "windows"
       [] w = "Chrome"  -> "chrome"
       [] w = "Safari"  -> "safari"
       [] w = "iPhone"  -> "iphone"
       [] OTHER         -> w : w \in Range(ua)}

parse_user_agent(ua) ==
    LET low == LowerUa(ua)
        os_name == IF "windows" \in low THEN "Windows"
                   ELSE IF "mac" \in low THEN "Mac"
                   ELSE IF "android" \in low THEN "Android"
                   ELSE IF "iphone" \in low THEN "iOS"
                   ELSE "Unknown"
        device == IF "windows" \in low \/ "mac" \in low THEN "Desktop"
                  ELSE IF "android" \in low \/ "iphone" \in low THEN "Mobile"
                  ELSE "Desktop"
        browser == IF "chrome" \in low THEN "Chrome"
                   ELSE IF "firefox" \in low THEN "Firefox"
                   ELSE IF "safari" \in low THEN "Safari"
                   ELSE "Unknown"
    IN <<browser, os_name, device>>

TrackUserAtResettingFirstVisit(coll, ip, ua, geo_ok, now) ==
    IF \E i \in 1..Len(coll) : coll[i].doc.ip = ip
    THEN LET i == CHOOSE k \in 1..Len(coll) :
                      /\ coll[k].doc.ip = ip
                      /\ \A j \in 1..(k - 1) : coll[j].doc.ip # ip
         IN [coll EXCEPT ![i].doc.last_active = now, ![i].doc.ua = ua,
                         ![i].doc.first_visit = now,
                         ![i].doc.geo = geo_ok \/ @]
    ELSE insert_one(coll, [ip |-> ip, ua |-> ua, last_active |-> now,
                           first_visit |-> now, geo |-> geo_ok])

\* Track user, with the user agent and the time of the request
TrackUserAt(coll, ip, ua, geo_ok, now) ==
    IF \E i \in 1..Len(coll) : coll[i].doc.ip = ip
    THEN LET i == CHOOSE k \in 1..Len(coll) :
                      /\ coll[k].doc.ip = ip
                      /\ \A j \in 1..(k - 1) : coll[j].doc.ip # ip
         IN [coll EXCEPT ![i].doc.last_active = now, ![i].doc.ua = ua,
                         ![i].doc.geo = geo_ok \/ @]
    ELSE insert_one(coll, [ip |-> ip, ua |-> ua, last_active |-> now,
                           first_visit |-> now, geo |-> geo_ok])

\* The system prompt with the user-context block and the timestamp filled in
FillContext(prompt, context, now) ==
    [i \in 1..Len(prompt) |->
        IF prompt[i].tag = "user_context" THEN Block("user_context", context)
        ELSE IF prompt[i].tag = "timestamp" THEN Block("timestamp", <<now>>)
        ELSE prompt[i]]

ServerUtterances == {<<"tournament">>, <<"Explain">>}

HandleWithVisitorState(h, coll, now, geo_ok, info) ==
    [local |-> [h EXCEPT !.pc = "streaming", !.now = now, !.realtime_info = info,
                         !.system_prompt =
                             FillContext(SystemPrompt(info, FALSE,
                                                      IsContinuation(h.messages) \/ coll # <<>>),
                                         parse_user_agent(h.ua), now)],
     tracking |-> TrackUserAt(coll, h.ip, h.ua, geo_ok, now)]

\* The handler body of one request: its locals afterwards and the tracking
\* collection afterwards
Handle(h, coll, now, geo_ok, info) ==
    [local |-> [h EXCEPT !.pc = "streaming", !.now = now, !.realtime_info = info,
                         !.system_prompt =
                             FillContext(SystemPrompt(info, FALSE, IsContinuation(h.messages)),
                                         parse_user_agent(h.ua), now)],
     tracking |-> TrackUserAt(coll, h.ip, h.ua, geo_ok, now)]

serverFrame == <<pc, request, handlerVars, failures, response, stream, arrived, full_reply,
                 events, beautified_image_url, inserted_id, splitVars, search_outcome,
                 category_no, last_lookup, uploadVars, historyVars>>

ServerStart ==
    /\ pc = "serving"
    /\ ChatIdle
    /\ ToolsIdle

\* A request arrives: the framework has parsed it, the handler has not run
SrvReceive(r) ==
    /\ handlers[r].pc = "idle"
    /\ \E ip \in ClientIps, ua \in UserAgents, u \in ServerUtterances :
           handlers' = [handlers EXCEPT ![r] =
                            [@ EXCEPT !.pc = "received", !.ip = ip, !.ua = ua,
                                      !.messages = <<Msg("user", u)>>]]
    /\ UNCHANGED <<clock, tracking, chats, serverFrame>>

\* The handler body, from the first line to the return of StreamingResponse
SrvHandle(r) ==
    /\ handlers[r].pc = "received"
    /\ LET h == handlers[r]
           lower == LowerText(LastOf(h.messages).content)
       IN \E geo_ok \in BOOLEAN, outcome \in [Triggered(lower) -> LookupOutcomes] :
              /\ IsLoopback(h.ip) => ~geo_ok
              /\ LET after == Handle(h, tracking, clock, geo_ok,
                                     FetchRealtime(lower, outcome).info)
                 IN /\ handlers' = [handlers EXCEPT ![r] = after.local]
                    /\ tracking' = after.tracking
    /\ UNCHANGED <<clock, chats, serverFrame>>

\* generate() runs to its end: the chat-turn record is inserted
SrvGenerate(r) ==
    /\ handlers[r].pc = "streaming"
    /\ chats' = insert_one(chats, [user_message |-> LastUserMessage(handlers[r].messages),
                                   ai_reply |-> <<"a">>,
                                   image_url |-> <<>>,
                                   timestamp |-> handlers[r].now])
    /\ handlers' = [handlers EXCEPT ![r].pc = "done"]
    /\ UNCHANGED <<clock, tracking, serverFrame>>

\* Time passes
SrvTick ==
    /\ clock < MaxClock
    /\ clock' = clock + 1
    /\ UNCHANGED <<handlers, tracking, chats, serverFrame>>

ServerNext ==
    \/ \E r \in ReqIds : SrvReceive(r)
    \/ \E r \in ReqIds : SrvHandle(r)
    \/ \E r \in ReqIds : SrvGenerate(r)
    \/ SrvTick

ServerSpec == ServerStart /\ [][ServerNext]_vars

\* ------------------------------------------------- chat history endpoints
\* Here a text is a sequence of characters, so that title[:50] can cut it.
TitleLimit == 50

Emails == {"a@x.io", "b@x.io"}

SessionIds == {"s1", "s2"}

ShortText == <<"h", "i">>

LongText == [i \in 1..(TitleLimit + 1) |-> "x"]

LongTitle == [i \in 1..(TitleLimit + 1) |-> "t"]

NewChat == <<"N", "e", "w", " ", "C", "h", "a", "t">>

\* The record generate() stores for a chat turn
ChatTurn(session_id, email, now, user_message) ==
    [session_id |-> session_id, email |-> email, timestamp |-> now,
     user_message |-> user_message, ai_reply |-> <<"a">>, image_url |-> <<>>,
     custom_title |-> Absent, is_pinned |-> Absent, is_archived |-> Absent]

ChatUpdates ==
    {ChatUpdate(Absent, Absent, Absent), ChatUpdate(Some(LongTitle), Absent, Absent),
     ChatUpdate(Some(<<>>), Absent, Absent), ChatUpdate(Absent, Some(TRUE), Some(TRUE))}

\* {"$match": {"email": email, "session_id": {"$ne": None}}}
Matched(coll, email) ==
    {i \in 1..Len(coll) : coll[i].doc.email = email /\ coll[i].doc.session_id # Null}

\* The documents of one group of {"$group": {"_id": "$session_id", ...}}
GroupOf(coll, email, session_id) ==
    {i \in Matched(coll, email) : coll[i].doc.session_id = session_id}

\* The documents $first may read after {"$sort": {"timestamp": 1}}: the
\* order of documents with equal timestamps is not defined
FirstOf(coll, group) ==
    {i \in group : \A j \in group : coll[i].doc.timestamp <= coll[j].doc.timestamp}

\* {"$last": "$timestamp"} after the same sort
LastTimestamp(coll, group) ==
    CHOOSE t \in {coll[i].doc.timestamp : i \in group} :
        \A j \in group : coll[j].doc.timestamp <= t

\* h.get(key) of a text is falsy: no such key, or the empty text
Falsy(v) == v = Absent \/ v = Some(<<>>)

\* title[:50]
Truncate(title) == SubSeq(title, 1, IF Len(title) < TitleLimit THEN Len(title) ELSE TitleLimit)

\* One entry of the listing, from the group's first document
HistoryEntry(first, last_active) ==
    LET title == IF ~Falsy(first.custom_title) THEN first.custom_title[1]
                 ELSE IF ~Falsy(Some(first.user_message)) THEN first.user_message
                 ELSE NewChat
    IN [session_id |-> first.session_id,
        title |-> Truncate(title),
        timestamp |-> last_active,
        is_pinned |-> first.is_pinned,
        is_archived |-> first.is_archived]

\* The orders {"$sort": {"last_active": -1}} may give the groups
GroupOrders(coll, email) ==
    LET ids == {coll[i].doc.session_id : i \in Matched(coll, email)}
        n == Cardinality(ids)
    IN {order \in [1..n -> ids] :
            /\ \A a, b \in 1..n : a # b => order[a] # order[b]
            /\ \A a, b \in 1..n :
                   a < b => LastTimestamp(coll, GroupOf(coll, email, order[a]))
                                >= LastTimestamp(coll, GroupOf(coll, email, order[b]))}

\* The listings GET /chat/history may answer with
get_chat_history(coll, email) ==
    IF email = "" THEN {<<>>}
    ELSE LET ids == {coll[i].doc.session_id : i \in Matched(coll, email)}
             firsts == {f \in [ids -> 1..Len(coll)] :
                            \A s \in ids : f[s] \in FirstOf(coll, GroupOf(coll, email, s))}
         IN {[k \in 1..Len(order) |->
                 HistoryEntry(coll[f[order[k]]].doc,
                              LastTimestamp(coll, GroupOf(coll, email, order[k])))] :
             order \in GroupOrders(coll, email), f \in firsts}

\* update_data of update_chat_session: the fields of the payload that are given
update_data(payload) ==
    {k \in {"title", "is_pinned", "is_archived"} : payload[k] # Absent}

update_many_any_email(coll, session_id, email, payload) ==
    [i \in 1..Len(coll) |->
        IF coll[i].doc.session_id = session_id
        THEN [coll[i] EXCEPT
                 !.doc.custom_title = IF payload.title # Absent THEN payload.title ELSE @,
                 !.doc.is_pinned = IF payload.is_pinned # Absent THEN payload.is_pinned ELSE @,
                 !.doc.is_archived = IF payload.is_archived # Absent THEN payload.is_archived
                                     ELSE @]
        ELSE coll[i]]

\* update_many({"session_id": session_id, "email": email}, {"$set": update_data})
update_many(coll, session_id, email, payload) ==
    [i \in 1..Len(coll) |->
        IF coll[i].doc.session_id = session_id /\ coll[i].doc.email = email
        THEN [coll[i] EXCEPT
                 !.doc.custom_title = IF payload.title # Absent THEN payload.title ELSE @,
                 !.doc.is_pinned = IF payload.is_pinned # Absent THEN payload.is_pinned ELSE @,
                 !.doc.is_archived = IF payload.is_archived # Absent THEN payload.is_archived
                                     ELSE @]
        ELSE coll[i]]

RECURSIVE Keep(_, _, _)
\* the documents of coll that do not match, in their order
Keep(coll, session_id, email) ==
    IF coll = <<>> THEN <<>>
    ELSE LET rest == Keep(Tail(coll), session_id, email)
         IN IF Head(coll).doc.session_id = session_id /\ Head(coll).doc.email = email
            THEN rest
            ELSE <<Head(coll)>> \o rest

\* delete_many({"session_id": session_id, "email": email})
delete_many(coll, session_id, email) == Keep(coll, session_id, email)

HistoryCall(op, session_id, email, payload, status, result) ==
    [op |-> op, session_id |-> session_id, email |-> email, payload |-> payload,
     answer |-> [status |-> status, result |-> result]]

historyFrame == <<pc, request, handlerVars, failures, response, stream, arrived, full_reply,
                  events, beautified_image_url, inserted_id, splitVars, search_outcome,
                  category_no, last_lookup, uploadVars, handlers, tracking>>

HistoryStart ==
    /\ pc = "history"
    /\ ChatIdle
    /\ ToolsIdle

\* POST /chat up to the return of StreamingResponse: `now` is read here
TurnHandle ==
    /\ NextId(chats) + Len(pending) <= MaxTurns
    /\ \E session_id \in SessionIds \cup {Null}, email \in Emails,
          user_message \in {ShortText, LongText} :
           pending' = Append(pending, ChatTurn(session_id, email, clock, user_message))
    /\ UNCHANGED <<chats, clock, history_call, historyFrame>>

\* generate() of one of the turns under way reaches insert_one
TurnStore ==
    /\ \E k \in 1..Len(pending) :
           /\ chats' = insert_one(chats, pending[k])
           /\ pending' = [i \in 1..(Len(pending) - 1) |->
                             IF i < k THEN pending[i] ELSE pending[i + 1]]
    /\ history_call' = NoCall
    /\ UNCHANGED <<clock, historyFrame>>

\* GET /chat/history
GetChatHistory ==
    /\ \E email \in Emails \cup {""} :
           \E result \in get_chat_history(chats, email) :
               history_call' = HistoryCall("get", Null, email, NoCall.payload, "", result)
    /\ UNCHANGED <<chats, pending, clock, historyFrame>>

\* PUT /chat/history/{session_id}
UpdateChatSession ==
    /\ \E session_id \in SessionIds, email \in Emails, payload \in ChatUpdates :
           IF update_data(payload) = {}
           THEN /\ chats' = chats
                /\ history_call' = HistoryCall("put", session_id, email, payload,
                                               "no changes", <<>>)
           ELSE /\ chats' = update_many(chats, session_id, email, payload)
                /\ history_call' = HistoryCall("put", session_id, email, payload,
                                               "updated", <<>>)
    /\ UNCHANGED <<pending, clock, historyFrame>>

\* DELETE /chat/history/{session_id}
DeleteChatSession ==
    /\ \E session_id \in SessionIds, email \in Emails :
           /\ chats' = delete_many(chats, session_id, email)
           /\ history_call' = HistoryCall("delete", session_id, email, NoCall.payload, "deleted",
                                          <<>>)
    /\ UNCHANGED <<pending, clock, historyFrame>>

HistoryNext ==
    \/ TurnHandle
    \/ TurnStore
    \/ GetChatHistory
    \/ UpdateChatSession
    \/ DeleteChatSession
    \/ SrvTick

HistorySpec == HistoryStart /\ [][HistoryNext]_vars

\* ------------------------------------------------- properties
\* Helpers of the properties below
Received == pc \notin {"idle", "error400", "error413"}

RealtimeDone == pc \notin {"idle", "error400", "error413", "realtime"}

Routed == pc \notin {"idle", "error400", "error413", "realtime", "route"}

Assembled == pc \notin {"idle", "error400", "error413", "realtime", "route", "assemble"}

Streaming == pc \in {"gen_loop", "gen_crashed", "gen_beautify", "gen_save", "gen_final", "done"}

EventIndexes(type) == {i \in 1..Len(events) : events[i].type = type}

IsChunkEvent(e) == e.type = "chunk"

ChunkData == LET chunk_events == SelectSeq(events, IsChunkEvent)
             IN [i \in 1..Len(chunk_events) |-> chunk_events[i].data]

ArrivedText == LET texts == SelectSeq(arrived, HasText)
               IN [i \in 1..Len(texts) |-> texts[i].content]

RECURSIVE Concat(_)
Concat(ss) == IF ss = <<>> THEN <<>> ELSE Head(ss) \o Concat(Tail(ss))

Tags(prompt) == [i \in 1..Len(prompt) |-> prompt[i].tag]

HasBlock(prompt, tag) == \E i \in 1..Len(prompt) : prompt[i].tag = tag

IncomingText == LowerText(LastOf(request.messages).content)

SystemIndexes(msgs) == {i \in 1..Len(msgs) : msgs[i].role = "system"}

\* Position of a block in the order the specification states
StatedRank(tag) ==
    CASE tag = "persona" -> 1
      [] tag = "image_rules" -> 2
      [] tag = "realtime" -> 3
      [] tag = "user_context" -> 4
      [] tag = "timestamp" -> 5
      [] tag = "continuation" -> 6
      [] tag = "anti_disclaimer" -> 7

\* Position of a block in the order the handler appends the blocks
BuiltRank(tag) ==
    CASE tag = "persona" -> 1
      [] tag = "realtime" -> 2
      [] tag = "timestamp" -> 3
      [] tag = "image_rules" -> 4
      [] tag = "user_context" -> 5
      [] tag = "anti_disclaimer" -> 6
      [] tag = "continuation" -> 7

\* C1: when a text-only utterance matches several realtime categories, every
\* matched category issues its own lookup, whether or not the lookup of
\* another matched category raised.
C1_EveryMatchedCategoryLooksUp ==
    (RealtimeDone /\ is_text_only) =>
        \A c \in Triggered(IncomingText) : c \in Range(lookups)

\* C2: a failure of an optional enrichment (geolocation, realtime lookup,
\* up-front image search) never ends the request: no error status is
\* returned unless the model call itself was made and raised, and the model
\* is called at most once.
C2_EnrichmentFailureNeverAborts ==
    failures # {} =>
        /\ pc # "error400"
        /\ pc = "error500" => model_calls = <<"raise">>
        /\ Streaming => model_calls = <<"ok">>

C2_Witness ==
    /\ failures = {"geo", "realtime", "images"}
    /\ pc = "done"
    /\ LastOf(events).type = "final"

\* C3: for a completed stream the chunk events are the text fragments in
\* arrival order, the last event is the only final event, and its text is
\* the concatenation of the chunk data; no final event exists before.
C3_RelayOrderAndFinal ==
    /\ pc = "done" =>
           /\ ChunkData = ArrivedText
           /\ EventIndexes("final") = {Len(events)}
           /\ LastOf(events).data = Concat(ChunkData)
    /\ pc # "done" => EventIndexes("final") = {}

C3_Witness ==
    /\ pc = "done"
    /\ ChunkData = << <<"a">>, <<"b">> >>
    /\ LastOf(events).data = <<"a", "b">>

\* C4: when image URLs were fetched up front, the relay emits exactly one
\* images event, carrying them, before every other event; when there are
\* none, it emits no images event.
C4_ImagesEventFirst ==
    /\ \A i \in EventIndexes("images") : i = 1
    /\ Streaming =>
           IF image_urls # <<>>
           THEN /\ EventIndexes("images") = {1}
                /\ events[1].data = image_urls
                /\ fetch_images_upfront
           ELSE EventIndexes("images") = {}

C4_Witness ==
    /\ pc = "done"
    /\ Len(events) >= 3
    /\ events[1].type = "images"
    /\ events[2].type = "chunk"

\* C5: a completed stream inserts exactly one chat record, after the last
\* chunk event and before the final event, and the final event carries the
\* identifier of that record.
C5_OneRecordBeforeFinal ==
    /\ [](/\ Len(chats) <= 1
          /\ pc = "done" =>
                 /\ Len(chats) = 1
                 /\ LastOf(events).type = "final"
                 /\ LastOf(events).message_id = chats[1]._id
                 /\ chats[1].doc.ai_reply = LastOf(events).data
          /\ EventIndexes("final") # {} => chats # <<>>)
    /\ [][/\ chats' # chats => EventIndexes("final") = {}
          /\ chats # <<>> => EventIndexes("chunk")' = EventIndexes("chunk")]_vars

C5_Witness ==
    /\ pc = "done"
    /\ Len(chats) = 1
    /\ Len(ChunkData) = 2

\* C6 (as stated): the blocks of the system prompt appear in the order
\* persona, image-mode rules, realtime block, user-context, timestamp,
\* continuation directive, anti-disclaimer directive.
C6_StatedOrder ==
    \A i, j \in 1..Len(system_prompt) :
        i < j => StatedRank(system_prompt[i].tag) < StatedRank(system_prompt[j].tag)

\* C6 (amended): the blocks of the system prompt appear in the order
\* persona, realtime block, timestamp, image-mode rules, user-context,
\* anti-disclaimer directive, continuation directive.
C6_BuiltOrder ==
    /\ \A i, j \in 1..Len(system_prompt) :
           i < j => BuiltRank(system_prompt[i].tag) < BuiltRank(system_prompt[j].tag)
    /\ Assembled => {"persona", "timestamp", "user_context"} \subseteq Range(Tags(system_prompt))

C6_Witness ==
    /\ pc = "call"
    /\ Tags(system_prompt) = <<"persona", "realtime", "timestamp", "image_rules",
                               "user_context", "anti_disclaimer", "continuation">>

\* C7 (as stated): the anti-disclaimer directive is in the system prompt if
\* and only if at least one realtime snippet was collected.
C7_GuardIffRealtime ==
    Assembled => (HasBlock(system_prompt, "anti_disclaimer") <=> realtime_info # <<>>)

\* C7 (amended): the anti-disclaimer directive is in every assembled system
\* prompt, exactly once, whether or not a realtime snippet was collected.
C7_GuardAlways ==
    Assembled =>
        Cardinality({i \in 1..Len(system_prompt) :
                         system_prompt[i].tag = "anti_disclaimer"}) = 1

C7_Witness ==
    /\ pc = "call"
    /\ realtime_info = <<>>
    /\ lookups = <<>>
    /\ HasBlock(system_prompt, "anti_disclaimer")

\* C8: when the incoming list starts with a system message, the list sent to
\* the model has the same length, starts with a system message carrying the
\* assembled prompt, and keeps every message before the last one unchanged.
C8_LeadingSystemReplaced ==
    (Assembled /\ request.messages[1].role = "system") =>
        /\ Len(final_messages) = Len(request.messages)
        /\ final_messages[1].role = "system"
        /\ final_messages[1].content = system_prompt
        /\ \A i \in 2..(Len(request.messages) - 1) : final_messages[i] = request.messages[i]

\* C9: the list sent to the model holds exactly one system message, at
\* index 0 (the first position).
C9_ExactlyOneSystemFirst ==
    Assembled => SystemIndexes(final_messages) = {1}

\* C10: an utterance matching an explanation pattern never takes the
\* pure-image branch (no up-front image search, no image URLs, no images
\* event), even when a pure-image pattern matches too; an utterance matching
\* a pure-image pattern and no explanation pattern takes it.
C10_ExplanationWins ==
    Received =>
        /\ IsExplanationRequest(IncomingText) =>
               /\ ~fetch_images_upfront
               /\ image_searches = <<>>
               /\ image_urls = <<>>
               /\ EventIndexes("images") = {}
        /\ (Routed /\ MatchesPureImagePattern(IncomingText)
                   /\ ~IsExplanationRequest(IncomingText)) =>
               /\ fetch_images_upfront
               /\ Len(image_searches) = 1

C10_Witness ==
    /\ pc = "done"
    /\ IsExplanationRequest(IncomingText)
    /\ MatchesPureImagePattern(IncomingText)
    /\ ~fetch_images_upfront

\* ------------------------------------------------- split_large_code
LinesOf(chunk_list) == [i \in 1..Len(chunk_list) |-> SplitLines(chunk_list[i])]

\* The stated continuation test, over a message list
StatedContinuation(msgs) ==
    /\ Cardinality({i \in 1..Len(msgs) : msgs[i].role = "user"}) = 1
    /\ \E i \in 1..Len(msgs) :
           /\ msgs[i].role = "assistant"
           /\ msgs[i].content # <<>>
           /\ \A j \in (i + 1)..Len(msgs) : msgs[j].role # "assistant"

\* The cases the continuation claim lists as getting no directive
StatedNoContinuation(msgs) ==
    \/ \A i \in 1..Len(msgs) : msgs[i].role # "assistant"
    \/ Cardinality({i \in 1..Len(msgs) : msgs[i].role = "user"}) >= 2
    \/ \E i \in 1..Len(msgs) :
           /\ msgs[i].role = "assistant"
           /\ msgs[i].content = <<>>
           /\ \A j \in (i + 1)..Len(msgs) : msgs[j].role # "assistant"

NoSideEffect ==
    /\ tracking = <<>>
    /\ failures = {}
    /\ lookups = <<>>
    /\ realtime_info = <<>>
    /\ image_searches = <<>>
    /\ model_calls = <<>>
    /\ events = <<>>
    /\ chats = <<>>

LacksContent(msgs) == IF msgs = <<>> THEN TRUE ELSE msgs[Len(msgs)].content = <<>>

\* C22: a request with an empty message list or a last message without
\* content is answered 400, one whose last message text is longer than
\* 500000 characters is answered 413, no other request is answered so, and
\* a rejected request has written no tracking record, made no external
\* lookup or model call and created no chat-turn record.
C22_RejectedBeforeSideEffects ==
    pc # "idle" =>
        /\ pc = "error400" <=> LacksContent(request.messages)
        /\ pc = "error413" <=>
               IF LacksContent(request.messages) THEN FALSE
               ELSE content_size(LastOf(request.messages).content) > 500000
        /\ pc \in {"error400", "error413"} => NoSideEffect

\* A request with history whose last message is too long was rejected
C22_Witness ==
    /\ pc = "error413"
    /\ Len(request.messages) = 2
    /\ NoSideEffect

\* C23: if starting the model call raises, the request is answered with
\* status 500 whose detail carries the error, no stream event is emitted
\* and no chat-turn record is created; the call is attempted once.
C23_ModelCallFailureIs500 ==
    /\ Len(model_calls) <= 1
    /\ (model_calls # <<>> /\ model_calls[Len(model_calls)] = "raise") =>
           /\ pc = "error500"
           /\ response.status = 500
           /\ Len(response.detail) = 2
           /\ response.detail[1] = "AI service error"
           /\ response.detail[2] \in {"timeout", "rate limit"}
           /\ events = <<>>
           /\ chats = <<>>
    /\ response.status = 500 => model_calls = <<"raise">>

\* The model call of a request with a realtime lookup behind it raised
C23_Witness ==
    /\ pc = "error500"
    /\ model_calls = <<"raise">>
    /\ response.detail = <<"AI service error", "rate limit">>
    /\ lookups # <<>>

\* The text is a placeholder in square brackets
IsPlaceholder(t) == Len(t) >= 3 /\ t[1] = "[" /\ t[Len(t)] = "]"

C27_NoSearchUnlessTextOnly ==
    (Routed /\ ~IsTextOnly(LastOf(request.messages).content)) =>
        /\ lookups = <<>>
        /\ image_urls = <<>>
        /\ "images" \notin failures

\* C28: if the model stream raises while it is consumed, after any number
\* of chunk events, no final event is emitted and no chat-turn record is
\* inserted; a chat-turn record exists only for a stream that was drained
\* to completion.
C28_NoRecordForBrokenStream ==
    /\ stream = "raised" => (EventIndexes("final") = {} /\ chats = <<>>)
    /\ chats # <<>> => stream = "exhausted"
    /\ EventIndexes("final") # {} => stream = "exhausted"

\* The stream raised after two chunk events
C28_Witness ==
    /\ stream = "raised"
    /\ Cardinality(EventIndexes("chunk")) = 2
    /\ pc = "gen_crashed"

\* C29: for any interleaving of /chat requests handled by the server the
\* tracking collection holds at most one record per client ip; the first
\* request of an ip inserts the record with first_visit, every later request
\* of that ip updates that same record, and first_visit never changes.
RecordsOf(coll, ip) == {i \in 1..Len(coll) : coll[i].doc.ip = ip}

OneRecordPerIp == \A ip \in ClientIps : Cardinality(RecordsOf(tracking, ip)) <= 1

TrackingStep ==
    /\ \A i \in 1..Len(tracking) :
           /\ i <= Len(tracking')
           /\ tracking'[i].doc.ip = tracking[i].doc.ip
           /\ tracking'[i].doc.first_visit = tracking[i].doc.first_visit
    /\ \A r \in ReqIds :
           (handlers[r].pc = "received" /\ handlers'[r].pc = "streaming") =>
               LET ip == handlers[r].ip
               IN IF RecordsOf(tracking, ip) = {}
                  THEN /\ Len(tracking') = Len(tracking) + 1
                       /\ tracking'[Len(tracking')].doc.ip = ip
                       /\ tracking'[Len(tracking')].doc.first_visit = clock
                  ELSE /\ Len(tracking') = Len(tracking)
                       /\ \A i \in RecordsOf(tracking, ip) :
                              tracking'[i].doc.last_active = clock

C29_OneTrackingRecordPerIp == []OneRecordPerIp /\ [][TrackingStep]_vars

C29_Witness ==
    /\ \A r \in ReqIds : handlers[r].pc \in {"streaming", "done"}
    /\ \A r \in ReqIds : handlers[r].ip = "203.0.113.9"
    /\ handlers[1].now # handlers[2].now
    /\ Len(tracking) = 1
    /\ tracking[1].doc.first_visit < tracking[1].doc.last_active

\* C25: the assembled system prompt of a request is determined only by the
\* request's own inputs (message list, fetched snippets, user-agent context,
\* current time): two requests with equal inputs get equal system prompts
\* whatever was processed before them or concurrently with them.
Handled(r) == handlers[r].pc \in {"streaming", "done"}

EqualInputs(r1, r2) ==
    /\ handlers[r1].messages = handlers[r2].messages
    /\ handlers[r1].realtime_info = handlers[r2].realtime_info
    /\ parse_user_agent(handlers[r1].ua) = parse_user_agent(handlers[r2].ua)
    /\ handlers[r1].now = handlers[r2].now

Listed == history_call.op = "get" /\ history_call.email \in Emails

TurnsOf(email, session_id) ==
    {i \in 1..Len(chats) : /\ chats[i].doc.email = email
                           /\ chats[i].doc.session_id = session_id}

StoredSessions(email) ==
    {sid \in SessionIds : TurnsOf(email, sid) # {}}

LatestTurn(email, session_id) ==
    CHOOSE t \in {chats[i].doc.timestamp : i \in TurnsOf(email, session_id)} :
        \A i \in TurnsOf(email, session_id) : chats[i].doc.timestamp <= t

EarliestMessages(email, session_id) ==
    {chats[i].doc.user_message :
        i \in {k \in TurnsOf(email, session_id) :
                  \A j \in TurnsOf(email, session_id) :
                      chats[k].doc.timestamp <= chats[j].doc.timestamp}}

CustomTitles(email, session_id) ==
    {chats[i].doc.custom_title[1] :
        i \in {k \in TurnsOf(email, session_id) : ~Falsy(chats[k].doc.custom_title)}}

First50(t) == [i \in 1..(IF Len(t) < 50 THEN Len(t) ELSE 50) |-> t[i]]

OneEntryPerSession ==
    Listed =>
        LET result == history_call.answer.result
        IN /\ {result[k].session_id : k \in 1..Len(result)}
                  = StoredSessions(history_call.email)
           /\ Len(result) = Cardinality(StoredSessions(history_call.email))

MostRecentFirst ==
    Listed =>
        LET result == history_call.answer.result
        IN \A a, b \in 1..Len(result) :
               a < b => LatestTurn(history_call.email, result[a].session_id)
                            >= LatestTurn(history_call.email, result[b].session_id)

TitleOfSession ==
    Listed =>
        LET result == history_call.answer.result
            email == history_call.email
        IN \A k \in 1..Len(result) :
               IF CustomTitles(email, result[k].session_id) # {}
               THEN result[k].title \in {First50(t) :
                                            t \in CustomTitles(email, result[k].session_id)}
               ELSE result[k].title \in {First50(t) :
                                            t \in EarliestMessages(email, result[k].session_id)}

C26_HistoryListing == OneEntryPerSession /\ MostRecentFirst /\ TitleOfSession

\* C30: PUT and DELETE on /chat/history/{session_id} with email E change or
\* remove only the chat-turn records whose session_id and email both match;
\* records of other sessions and records of the same session_id under another
\* email are left unchanged; a PUT whose title, is_pinned and is_archived are
\* all absent changes nothing, and a PUT never changes user_message, ai_reply
\* or timestamp of any record.
Addressed(c, call) ==
    c.doc.session_id = call.session_id /\ c.doc.email = call.email

PutStep == history_call'.op = "put" /\ UNCHANGED <<pending, clock>>

DeleteStep == history_call'.op = "delete" /\ UNCHANGED <<pending, clock>>

PutFrame ==
    /\ Len(chats') = Len(chats)
    /\ \A i \in 1..Len(chats) :
           /\ ~Addressed(chats[i], history_call') => chats'[i] = chats[i]
           /\ chats'[i]._id = chats[i]._id
           /\ chats'[i].doc.user_message = chats[i].doc.user_message
           /\ chats'[i].doc.ai_reply = chats[i].doc.ai_reply
           /\ chats'[i].doc.timestamp = chats[i].doc.timestamp
    /\ history_call'.payload = ChatUpdate(Absent, Absent, Absent) => chats' = chats

DeleteFrame ==
    /\ \A i \in 1..Len(chats) :
           ~Addressed(chats[i], history_call') =>
               \E j \in 1..Len(chats') : chats'[j] = chats[i]
    /\ \A j \in 1..Len(chats') : \E i \in 1..Len(chats) : chats[i] = chats'[j]

C30_HistoryWritesTouchOnlyTheirSession ==
    [][(PutStep => PutFrame) /\ (DeleteStep => DeleteFrame)]_vars

C30_Witness ==
    /\ history_call.op = "put"
    /\ history_call.payload.title = Some(LongTitle)
    /\ Len(chats) = 2
    /\ chats[1].doc.session_id = chats[2].doc.session_id
    /\ chats[1].doc.email # chats[2].doc.email
    /\ Addressed(chats[1], history_call)
    /\ chats[1].doc.custom_title = Some(LongTitle)
    /\ chats[2].doc.custom_title = Absent

\* C12: joining the chunks returned by split_large_code with a newline gives
\* back the text, for every text (the empty text, empty lines and a trailing
\* newline included) and every max_tokens >= 0.
C12_JoinReproducesText ==
    pc = "split_done" => JoinLines(chunks) = text

C12_Witness ==
    /\ pc = "split_done"
    /\ Len(chunks) >= 2
    /\ text # <<>> /\ text[Len(text)] = NL
    /\ \E i \in 1..(Len(lines) - 1) : lines[i] = <<>>
    /\ JoinLines(chunks) = text

\* C13 (as stated): a new chunk is started before a line if and only if the
\* current chunk is non-empty and the current chunk extended by that line
\* (joined with a newline) would be longer than max_tokens * 4 characters.
C13_CutIffExtendedExceeds ==
    \A i \in 1..Len(decisions) :
        decisions[i].cut <=>
            (decisions[i].nonempty /\ decisions[i].extended > max_chars)

\* C13 (amended): a new chunk is started before a line if and only if the
\* current chunk is non-empty and the current chunk extended by that line,
\* counted with one newline after every line (the last included), would be
\* longer than max_tokens * 4 characters.
C13_CutIffExtendedWithNewlineExceeds ==
    \A i \in 1..Len(decisions) :
        decisions[i].cut <=>
            (decisions[i].nonempty /\ decisions[i].extended + 1 > max_chars)

C13_Witness ==
    /\ pc = "split_done"
    /\ max_chars > 0
    /\ \E i \in 1..Len(decisions) :
           decisions[i].cut /\ decisions[i].extended = max_chars
    /\ \E i \in 1..Len(decisions) :
           ~decisions[i].cut /\ decisions[i].nonempty

\* C14: every chunk is a run of whole consecutive lines of the text, a chunk
\* longer than max_tokens * 4 characters is a single line, and a chunk of two
\* or more lines is at most max_tokens * 4 characters long.
C14_WholeLinesWithinBudget ==
    pc = "split_done" =>
        /\ Concat(LinesOf(chunks)) = lines
        /\ \A i \in 1..Len(chunks) :
               /\ Len(chunks[i]) > max_chars => Len(SplitLines(chunks[i])) = 1
               /\ Len(SplitLines(chunks[i])) >= 2 => Len(chunks[i]) <= max_chars

C14_Witness ==
    /\ pc = "split_done"
    /\ \E i \in 1..Len(chunks) :
           Len(chunks[i]) > max_chars /\ Len(SplitLines(chunks[i])) = 1
    /\ \E i \in 1..Len(chunks) : Len(SplitLines(chunks[i])) >= 2

\* ------------------------------------------------- fetch_images_for_query
\* Index of the first occurrence of url in the provider's result list
FirstIndex(results, url) ==
    CHOOSE i \in 1..Len(results) :
        results[i] = url /\ \A j \in 1..(i - 1) : results[j] # url

\* C11: the URL list returned for an image search has at most six entries,
\* holds no URL twice, holds only "original" URLs of the provider's result
\* list, and keeps them in the order of their first occurrence in that list.
C11_AtMostSixDistinctInOrder ==
    pc = "img_done" =>
        /\ Len(image_urls) <= 6
        /\ \A i, j \in 1..Len(image_urls) : i # j => image_urls[i] # image_urls[j]
        /\ \A i \in 1..Len(image_urls) :
               image_urls[i] # "" /\ image_urls[i] \in Range(search_outcome.results)
        /\ \A i, j \in 1..Len(image_urls) :
               i < j => FirstIndex(search_outcome.results, image_urls[i])
                            < FirstIndex(search_outcome.results, image_urls[j])

C11_Witness ==
    /\ pc = "img_done"
    /\ Cardinality(Range(search_outcome.results) \ {""}) > 6
    /\ "" \in Range(search_outcome.results)
    /\ \E i, j \in 1..Len(search_outcome.results) :
           i < j /\ search_outcome.results[i] = search_outcome.results[j]
                 /\ search_outcome.results[i] \in Range(image_urls)
    /\ Len(image_urls) = 6

\* ------------------------------------------------- realtime section
CategoryIndex(c) == CHOOSE i \in 1..Len(Categories) : Categories[i] = c

AllCategoryKeywords == UNION {CategoryKeywords(Categories[i]) : i \in 1..Len(Categories)}

ContainsNoCategoryKeyword(utterance) ==
    \A i \in 1..Len(utterance) : SubstringsOf(utterance[i]) \cap AllCategoryKeywords = {}

MatchedInOrder(utterance) == SelectSeq(Categories, LAMBDA c : Matches(c, utterance))

GenericLookupCategories ==
    {"stocks", "crypto", "fuel", "agriculture", "minerals", "environment",
     "health", "events", "travel", "extreme", "education"}

HasSnippetWith(c, data) ==
    \E i \in 1..Len(realtime_info) :
        realtime_info[i].category = c /\ data \in Range(realtime_info[i].text)

\* C15: for an utterance that contains no category keyword no lookup is
\* issued, the snippet list stays empty, and the assembled system prompt has
\* no realtime block.
C15_NoKeywordNoRealtime ==
    ContainsNoCategoryKeyword(IncomingText) =>
        /\ lookups = <<>>
        /\ last_lookup.category = ""
        /\ realtime_info = <<>>
        /\ pc = "rt_done" =>
               /\ ~HasBlock(system_prompt, "realtime")
               /\ HasBlock(system_prompt, "timestamp")

C15_Witness ==
    /\ pc = "rt_done"
    /\ is_text_only
    /\ LocationMatch(IncomingText)
    /\ ContainsNoCategoryKeyword(IncomingText)
    /\ ~HasBlock(system_prompt, "realtime")

\* C16: a text-only utterance with keywords of k categories issues the lookup
\* of each of the k categories, and the snippets are in the category
\* declaration order.
C16_EveryMatchedCategoryInOrder ==
    (pc = "rt_done" /\ is_text_only) =>
        /\ lookups = MatchedInOrder(IncomingText)
        /\ \A i, j \in 1..Len(realtime_info) :
               i < j => CategoryIndex(realtime_info[i].category)
                            < CategoryIndex(realtime_info[j].category)

\* C17: a matched category that works with a location (weather, fuel) issues
\* its lookup with the location "India" when the utterance names none.
C17_FallbackLocationIndia ==
    \A c \in {"weather", "fuel"} :
        (/\ is_text_only
         /\ category_no = CategoryIndex(c)
         /\ Matches(c, IncomingText)
         /\ ~LocationMatch(IncomingText)) =>
            /\ last_lookup.category = c
            /\ last_lookup.location = <<"India">>

\* C18: after a weather lookup that answered, a returned temperature (0
\* included) gives exactly one weather snippet holding that temperature and
\* the returned city; no temperature but a summary gives exactly one weather
\* snippet holding the summary unchanged.
C18_WeatherSnippet ==
    (category_no = 1 /\ last_lookup.category = "weather") =>
        LET w == weather(last_lookup.location, last_lookup.answer)
        IN /\ (~w.raised /\ w.temp_c # <<>>) =>
                  /\ Len(realtime_info) = 1
                  /\ realtime_info[1].category = "weather"
                  /\ realtime_info[1].temp = w.temp_c
                  /\ realtime_info[1].place = w.city
           /\ (~w.raised /\ w.temp_c = <<>> /\ w.summary # "") =>
                  /\ Len(realtime_info) = 1
                  /\ realtime_info[1].category = "weather"
                  /\ realtime_info[1].text = <<w.summary>>

C18_Witness ==
    /\ category_no = 1
    /\ last_lookup.category = "weather"
    /\ last_lookup.answer.temp = <<0>>
    /\ Len(realtime_info) = 1
    /\ realtime_info[1].temp = <<0>>

\* C19: whenever the weather endpoint yields no temperature, because the call
\* failed or because its answer holds none, weather() makes the web search.
C19_SearchWheneverNoTemperature ==
    last_lookup.category = "weather" =>
        LET o == last_lookup.answer
            w == weather(last_lookup.location, o)
        IN ~(o.key /\ o.endpoint = "ok" /\ o.temp # <<>>) => w.searched

\* C20: for every generic-lookup category, a search answer with a direct
\* answer gives a snippet built from it, and a search answer without an
\* answer box but with a first organic result with text gives a snippet
\* built from that result.
C20_AnswerOrFirstOrganic ==
    \A c \in GenericLookupCategories :
        (category_no = CategoryIndex(c) /\ last_lookup.category = c) =>
            LET r == last_lookup.answer
            IN ~r.raised =>
                   /\ (r.answer_box # <<>> /\ AnswerOrSnippet(r.answer_box[1]) # "") =>
                          HasSnippetWith(c, AnswerOrSnippet(r.answer_box[1]))
                   /\ (r.answer_box = <<>> /\ r.organic_results # <<>>
                           /\ r.organic_results[1].snippet # "") =>
                          HasSnippetWith(c, r.organic_results[1].snippet)

====
